---- MODULE Spec2Model ----
(***************************************************************************)
(* Verification model of the NBA trend scripts: the threshold scanners,    *)
(* the stat-window loaders and the per-player file caches.                 *)
(*                                                                         *)
(* The scripts are independent programs; each area has its own variables   *)
(* and its own specification (SpecScan, SpecLoad, SpecCache, SpecSave).    *)
(* Time is counted in whole hours; a calendar day is 24 consecutive hours. *)
(***************************************************************************)
EXTENDS Integers, Sequences, FiniteSets, TLC

VARIABLES
    \* ---- threshold scanning (phase3, phase4, phase5, phase6)
    scanScript,     \* the script whose scanner runs
    scanDf,         \* the window (sequence of game rows, newest first)
    scanIdx,        \* position in the category order of the caller's loop
    scanRes,        \* category -> what the scanner returned
    scanState,      \* "scanning" | "done" | "crashed"
    \* ---- window loading (phase3, phase4, phase5)
    loadScript,     \* the script whose loader runs
    stats,          \* the stats source: season index -> that season's game log
    loadSeason,     \* index in SEASONS of the loop "for season in SEASONS"
    loadFailed,     \* seasons whose fetch raised
    df_all,         \* rows collected so far
    loadOut,        \* the returned window
    loadPc,         \* "idle" | "loop" | "sort" | "done"
    \* ---- cached fetching (phase5, nba_trends_final, nba_trends_parlays_final)
    cScript,        \* the script that runs
    now,            \* the clock, in hours
    cFile,          \* the player's cache file
    cStats,         \* the stats source: <<log of the season in progress, log of the season before>>
    call,           \* the call that has just ended
    \* ---- writing a cache file step by step (phase5, phase6)
    sScript,        \* the script that saves
    sPath,          \* the player's cache file
    sTmp,           \* the temporary file of safe_cache_save
    sPc,            \* "idle" | "dump" | "replace"
    sDf,            \* the frame being saved
    sPrev,          \* the player's cache file when the save began
    sRead,          \* what the last load of the cache file gave
    \* ---- the retry loop of get_last_n_games (final, parlays)
    rScript,        \* the script whose get_last_n_games runs
    rPc,            \* "idle" | "request" | "sleep" | "returned"
    attempt,        \* the loop variable of "for attempt in range(3)"
    rTried,         \* attempts this call has made
    rRequests,      \* requests this call has sent to the stats source
    rSlept,         \* the delays this call has waited, in half seconds
    rResult,        \* "none" | "fetched" | "exhausted"
    rCalls,         \* calls that have returned
    rPrev,          \* how the call before this one went
    \* ---- main's loop over the players (phase3, phase4, phase5, phase6)
    mScript,        \* the script whose main runs
    mPool,          \* the players: what the stats source and the cache hold
    mIdx,           \* the player main handles next
    mOut,           \* per player handled: the window and the results
    mState,         \* "running" | "done" | "crashed"
    \* ---- the choice of an odds line (parlays)
    odds_lookup,    \* the over lines FanDuel returned
    returned_markets, \* the markets that returned a line
    pickArgs,       \* player, stat_label, threshold
    best,           \* what pick_highest_alt_or_best_standard returned
    pickPc,         \* "idle" | "called" | "done"
    \* ---- calculate_auto_thresholds
    thrScript,      \* "final" | "auto_threshold" | "parlays"
    min_rate,       \* <<numerator, denominator>> of the minimum rate
    thrDf,          \* the window: a sequence of rows
    thrColumns,     \* the columns of the window
    thrResults,     \* the list the function returned
    thrPc,          \* "idle" | "called" | "done"
    \* ---- tennis_stats_predictor.get_todays_matches
    tmEnv,          \* the API keys set in the environment
    tmPc,           \* "idle" | "SGO" | "endpoints" | "RapidAPI" | "ESPN" | "returned"
    tmEndpoint,     \* the SGO endpoint tried next
    tmConsulted,    \* the sources consulted, in order
    tmYields,       \* what each consulted source yielded
    tmRequests,     \* the requests made and how each ended
    tmResult,       \* the returned list
    \* ---- build_parlay_suggestions (parlays)
    leg_pool,       \* the legs with odds
    double_pick,    \* the suggestion of two legs
    triple_pick,    \* the suggestion of three legs
    parlayPc,       \* "idle" | "double" | "triple" | "done"
    \* ---- the cache directory of nba_trends_final, by player name
    cache_dir,      \* file name -> file
    dirNow,         \* the clock, in hours
    dirCall,        \* the last call of get_last_n_games: name and outcome
    \* ---- tennis_stats_predictor.predict_player_stats
    use_cache,      \* the argument use_cache
    playerFile,     \* the player's cache file
    playerFile0,    \* the file as it was when the call began
    predMatches,    \* the local variable matches
    slug,           \* what find_player_slug returned
    prediction,     \* what the call returned or raised
    predPc          \* "idle" | "load" | "slug" | "sample" | "scrape" | "check" | "save" | "aggregate" | "ended"

scanVars == <<scanScript, scanDf, scanIdx, scanRes, scanState>>

loadVars == <<loadScript, stats, loadSeason, loadFailed, df_all, loadOut, loadPc>>

cacheVars == <<cScript, now, cFile, cStats, call>>

saveVars == <<sScript, sPath, sTmp, sPc, sDf, sPrev, sRead>>

retryVars == <<rScript, rPc, attempt, rTried, rRequests, rSlept, rResult, rCalls, rPrev>>

mainVars == <<mScript, mPool, mIdx, mOut, mState>>

pickVars == <<odds_lookup, returned_markets, pickArgs, best, pickPc>>

thrVars == <<thrScript, min_rate, thrDf, thrColumns, thrResults, thrPc>>

tmVars == <<tmEnv, tmPc, tmEndpoint, tmConsulted, tmYields, tmRequests, tmResult>>

parlayVars == <<leg_pool, double_pick, triple_pick, parlayPc>>

nameVars == <<cache_dir, dirNow, dirCall>>

predVars == <<use_cache, playerFile, playerFile0, predMatches, slug, prediction, predPc>>

vars == <<scanVars, loadVars, cacheVars, saveVars, retryVars, mainVars, pickVars, thrVars, tmVars, parlayVars, nameVars, predVars>>

(***************************************************************************)
(* Small helpers                                                           *)
(***************************************************************************)
SeqToSet(s) == {s[i] : i \in DOMAIN s}

RECURSIVE Repeat(_, _)
Repeat(x, n) == IF n = 0 THEN <<>> ELSE <<x>> \o Repeat(x, n - 1)

(***************************************************************************)
(* CONFIG of the scanning scripts                                          *)
(***************************************************************************)
LOOKBACK_GAMES == 10
LOOKBACK == 10
NUM_GAMES == 10

\* the literal 0.80 as the fraction 80/100
MIN_HIT_RATE_NUM == 80
MIN_HIT_RATE_DEN == 100

ScanScripts == {"phase3", "phase4", "phase5", "phase6"}

CATEGORY_ORDER == <<"PTS", "REB", "AST", "3PM", "STL", "BLK">>

\* phase3 THRESHOLDS, phase4 THRESHOLDS and phase5 CATEGORIES hold the same lists
THRESHOLDS3 ==
    [c \in SeqToSet(CATEGORY_ORDER) |->
        CASE c = "PTS" -> <<30, 25, 20, 15, 10>>
          [] c = "REB" -> <<12, 10, 8, 6>>
          [] c = "AST" -> <<10, 8, 6, 4>>
          [] c = "3PM" -> <<4, 3, 2, 1>>
          [] c = "STL" -> <<3, 2, 1>>
          [] c = "BLK" -> <<3, 2, 1>>]

THRESHOLDS4 == THRESHOLDS3

CATEGORIES == THRESHOLDS3

THRESHOLDS6 ==
    [c \in SeqToSet(CATEGORY_ORDER) |->
        CASE c = "PTS" -> <<30, 25, 20, 15, 10>>
          [] c = "REB" -> <<12, 10, 8, 6, 4>>
          [] c = "AST" -> <<9, 7, 5, 3>>
          [] c = "3PM" -> <<4, 3, 2, 1>>
          [] c = "STL" -> <<3, 2, 1>>
          [] c = "BLK" -> <<3, 2, 1>>]

ThresholdsOf(script) ==
    CASE script = "phase3" -> THRESHOLDS3
      [] script = "phase4" -> THRESHOLDS4
      [] script = "phase5" -> CATEGORIES
      [] script = "phase6" -> THRESHOLDS6

(***************************************************************************)
(* Game rows.  The stats source delivers PTS, REB, AST, STL, BLK and FG3M; *)
(* the loaders of phase3, phase4 and phase5 add the column "3PM", the      *)
(* loader of phase6 (get_logs) does not.                                   *)
(***************************************************************************)
SourceColumns == {"PTS", "REB", "AST", "STL", "BLK", "FG3M"}

ColumnsOf(script) ==
    IF script = "phase6" THEN SourceColumns ELSE SourceColumns \cup {"3PM"}

GameKinds == {"high", "mid", "low"}

SourceValue(kind, col) ==
    CASE kind = "high" ->
           (CASE col = "PTS" -> 30 [] col = "REB" -> 12 [] col = "AST" -> 10
              [] col = "FG3M" -> 4 [] col = "STL" -> 3 [] col = "BLK" -> 3)
      [] kind = "mid" ->
           (CASE col = "PTS" -> 20 [] col = "REB" -> 8 [] col = "AST" -> 6
              [] col = "FG3M" -> 2 [] col = "STL" -> 1 [] col = "BLK" -> 1)
      [] kind = "low" ->
           (CASE col = "PTS" -> 8 [] col = "REB" -> 3 [] col = "AST" -> 2
              [] col = "FG3M" -> 0 [] col = "STL" -> 0 [] col = "BLK" -> 0)

GameRow(script, kind) ==
    [col \in ColumnsOf(script) |->
        IF col = "3PM" THEN SourceValue(kind, "FG3M") ELSE SourceValue(kind, col)]

\* a row whose points are given and whose other stats are those of a low game
PointsRow(script, pts) ==
    [col \in ColumnsOf(script) |->
        IF col = "PTS" THEN pts
        ELSE IF col = "3PM" THEN SourceValue("low", "FG3M")
        ELSE SourceValue("low", col)]

ExamplePoints == <<30, 28, 25, 22, 20, 18, 15, 12, 10, 8>>

ExampleWindow(script) ==
    [i \in 1..Len(ExamplePoints) |-> PointsRow(script, ExamplePoints[i])]

\* windows of a high, b mid and c low games, the three blocks in a given order
BlockWindow(script, order, n) ==
    Repeat(GameRow(script, order[1]), n[order[1]])
        \o Repeat(GameRow(script, order[2]), n[order[2]])
        \o Repeat(GameRow(script, order[3]), n[order[3]])

BlockOrders ==
    {o \in [1..3 -> GameKinds] : \A i, j \in 1..3 : i # j => o[i] # o[j]}

ScanWindows(script) ==
    {BlockWindow(script, o, n) :
        o \in BlockOrders,
        n \in {m \in [GameKinds -> 0..LOOKBACK] :
                  m["high"] + m["mid"] + m["low"] <= LOOKBACK}}
      \cup {ExampleWindow(script)}

(***************************************************************************)
(* The scanners                                                            *)
(***************************************************************************)
None == [kind |-> "None", checked |-> 0]
KeyError == [kind |-> "KeyError", checked |-> 0]
Pending == [kind |-> "pending", checked |-> 0]

Miss(n) == [kind |-> "None", checked |-> n]
Found(lvl, hits, total, n) ==
    [kind |-> "found", lvl |-> lvl, hits |-> hits, total |-> total, checked |-> n]

\* int((df[stat] >= lvl).sum())
HitCount(df, stat, lvl) == Cardinality({i \in DOMAIN df : df[i][stat] >= lvl})

\* hits / total >= 0.80, with the float quotient compared as a fraction
RateOk(hits, total) == hits * MIN_HIT_RATE_DEN >= MIN_HIT_RATE_NUM * total

\* the loop "for lvl in levels: ... return / break": `n` thresholds were
\* evaluated before `levels`; the break ends the loop at the first miss
ScanLevels(df, stat, levels, n) ==
    IF levels = <<>> THEN Miss(n)
    ELSE LET lvl   == Head(levels)
             hits  == HitCount(df, stat, lvl)
             total == Len(df)
         IN  IF RateOk(hits, total) THEN Found(lvl, hits, total, n + 1)
             ELSE Miss(n + 1)

\* the loop without its break: goes on to the lower thresholds
RECURSIVE ScanLevelsNoBreak(_, _, _, _)
ScanLevelsNoBreak(df, stat, levels, n) ==
    IF levels = <<>> THEN Miss(n)
    ELSE LET lvl   == Head(levels)
             hits  == HitCount(df, stat, lvl)
             total == Len(df)
         IN  IF RateOk(hits, total) THEN Found(lvl, hits, total, n + 1)
             ELSE ScanLevelsNoBreak(df, stat, Tail(levels), n + 1)

HasColumn(df, stat) == \A i \in DOMAIN df : stat \in DOMAIN df[i]

\* best_line_for_category without "if total == 0: return None": hits / total
\* raises for the empty window
best_line_for_category3_unguarded(df, stat_key) ==
    IF Len(df) = 0 THEN [kind |-> "ZeroDivisionError", checked |-> 1]
    ELSE IF ~HasColumn(df, stat_key) THEN KeyError
    ELSE ScanLevels(df, stat_key, THRESHOLDS3[stat_key], 0)

best_line_for_category3(df, stat_key) ==
    IF Len(df) = 0 THEN None
    ELSE IF ~HasColumn(df, stat_key) THEN KeyError
    ELSE ScanLevels(df, stat_key, THRESHOLDS3[stat_key], 0)

best_line_for_category4(df, stat_key) ==
    IF Len(df) = 0 THEN None
    ELSE IF ~HasColumn(df, stat_key) THEN KeyError
    ELSE ScanLevels(df, stat_key, THRESHOLDS4[stat_key], 0)

\* the scan started at the lowest threshold of the list
best_hit_lowest(df, cat) ==
    IF Len(df) = 0 THEN None
    ELSE IF ~HasColumn(df, cat) THEN KeyError
    ELSE ScanLevels(df, cat, <<CATEGORIES[cat][Len(CATEGORIES[cat])]>>, 0)

best_hit(df, cat) ==
    IF Len(df) = 0 THEN None
    ELSE IF ~HasColumn(df, cat) THEN KeyError
    ELSE ScanLevels(df, cat, CATEGORIES[cat], 0)

\* best_line without the break of its loop
best_line_no_break(df, stat) ==
    IF Len(df) < NUM_GAMES THEN None
    ELSE IF ~HasColumn(df, stat) THEN KeyError
    ELSE ScanLevelsNoBreak(df, stat, THRESHOLDS6[stat], 0)

best_line(df, stat) ==
    IF Len(df) < NUM_GAMES THEN None
    ELSE IF ~HasColumn(df, stat) THEN KeyError
    ELSE ScanLevels(df, stat, THRESHOLDS6[stat], 0)

Scanner(script, df, cat) ==
    CASE script = "phase3" -> best_line_for_category3(df, cat)
      [] script = "phase4" -> best_line_for_category4(df, cat)
      [] script = "phase5" -> best_hit(df, cat)
      [] script = "phase6" -> best_line(df, cat)

(***************************************************************************)
(* Each specification runs one area; the variables of the others rest.     *)
(***************************************************************************)
ScanIdle ==
    /\ scanScript = "none"
    /\ scanDf = <<>>
    /\ scanIdx = 0
    /\ scanRes = <<>>
    /\ scanState = "idle"

LoadIdle ==
    /\ loadScript = "none"
    /\ stats = <<>>
    /\ loadSeason = 0
    /\ loadFailed = {}
    /\ df_all = <<>>
    /\ loadOut = <<>>
    /\ loadPc = "idle"

CacheIdle ==
    /\ cScript = "none"
    /\ now = 0
    /\ cFile = <<>>
    /\ cStats = <<>>
    /\ call = <<>>

SaveIdle ==
    /\ sScript = "none"
    /\ sPath = <<>>
    /\ sTmp = <<>>
    /\ sPc = "idle"
    /\ sDf = <<>>
    /\ sPrev = <<>>
    /\ sRead = <<>>

RetryIdle ==
    /\ rScript = "none"
    /\ rPc = "idle"
    /\ attempt = 0
    /\ rTried = 0
    /\ rRequests = 0
    /\ rSlept = <<>>
    /\ rResult = "none"
    /\ rCalls = 0
    /\ rPrev = <<>>

MainIdle ==
    /\ mScript = "none"
    /\ mPool = <<>>
    /\ mIdx = 0
    /\ mOut = <<>>
    /\ mState = "idle"

PickIdle ==
    /\ odds_lookup = {}
    /\ returned_markets = {}
    /\ pickArgs = <<>>
    /\ best = <<>>
    /\ pickPc = "idle"

ThrIdle ==
    /\ thrScript = "idle"
    /\ min_rate = <<0, 1>>
    /\ thrDf = <<>>
    /\ thrColumns = {}
    /\ thrResults = <<>>
    /\ thrPc = "idle"

TmIdle ==
    /\ tmEnv = {}
    /\ tmPc = "idle"
    /\ tmEndpoint = 0
    /\ tmConsulted = <<>>
    /\ tmYields = <<>>
    /\ tmRequests = <<>>
    /\ tmResult = <<>>

ParlayIdle ==
    /\ leg_pool = <<>>
    /\ double_pick = <<>>
    /\ triple_pick = <<>>
    /\ parlayPc = "idle"

NameIdle ==
    /\ cache_dir = <<>>
    /\ dirNow = 0
    /\ dirCall = <<>>

PredIdle ==
    /\ use_cache = FALSE
    /\ playerFile = <<>>
    /\ playerFile0 = <<>>
    /\ predMatches = <<>>
    /\ slug = "idle"
    /\ prediction = <<>>
    /\ predPc = "idle"

(***************************************************************************)
(* SpecScan: a caller scans the categories of one window in order          *)
(***************************************************************************)
ScanInit ==
    /\ scanScript \in ScanScripts
    /\ scanDf \in ScanWindows(scanScript)
    /\ scanIdx = 1
    /\ scanRes = [c \in SeqToSet(CATEGORY_ORDER) |-> Pending]
    /\ scanState = "scanning"
    /\ LoadIdle
    /\ CacheIdle
    /\ SaveIdle
    /\ RetryIdle
    /\ MainIdle
    /\ PickIdle
    /\ ThrIdle
    /\ TmIdle
    /\ ParlayIdle
    /\ NameIdle
    /\ PredIdle

\* one pass of the caller's loop "for cat in CATEGORY_ORDER"
ScanCategory ==
    /\ scanState = "scanning"
    /\ scanIdx <= Len(CATEGORY_ORDER)
    /\ LET cat == CATEGORY_ORDER[scanIdx]
           res == Scanner(scanScript, scanDf, cat)
       IN  /\ scanRes' = [scanRes EXCEPT ![cat] = res]
           /\ scanState' = IF res.kind = "KeyError" THEN "crashed" ELSE "scanning"
    /\ scanIdx' = scanIdx + 1
    /\ UNCHANGED <<scanScript, scanDf, loadVars, cacheVars, saveVars, retryVars, mainVars, pickVars, thrVars, tmVars, parlayVars, nameVars, predVars>>

\* the loop ends after the last category
ScanFinish ==
    /\ scanState = "scanning"
    /\ scanIdx > Len(CATEGORY_ORDER)
    /\ scanState' = "done"
    /\ UNCHANGED <<scanScript, scanDf, scanIdx, scanRes, loadVars, cacheVars, saveVars, retryVars, mainVars, pickVars, thrVars, tmVars, parlayVars, nameVars, predVars>>

ScanNext == ScanCategory \/ ScanFinish

SpecScan == ScanInit /\ [][ScanNext]_vars

(***************************************************************************)
(* Claims about the scanners (checked under SpecScan)                      *)
(***************************************************************************)
\* the hit rate of threshold t over the column `cat` of a window is >= 4/5
ClaimRatePasses(df, cat, t) ==
    5 * Cardinality({i \in DOMAIN df : df[i][cat] >= t}) >= 4 * Len(df)

ClaimPassing(script, df, cat) ==
    {t \in SeqToSet(ThresholdsOf(script)[cat]) : ClaimRatePasses(df, cat, t)}

\* C1: whenever a scanner (phase3, phase4, phase5, phase6) returns a threshold
\* for a non-empty window, that threshold is the highest one of the category's
\* list whose hit rate (games with stat >= threshold / window size) is at
\* least 0.80, and the returned hit count and rate are those of that threshold.
C1_ReturnedIsHighestPassing ==
    \A cat \in SeqToSet(CATEGORY_ORDER) :
        scanRes[cat].kind = "found" =>
            LET r == scanRes[cat]
                passing == ClaimPassing(scanScript, scanDf, cat)
            IN  /\ Len(scanDf) > 0
                /\ r.lvl \in passing
                /\ \A t \in passing : t <= r.lvl
                /\ r.hits = Cardinality({i \in DOMAIN scanDf : scanDf[i][cat] >= r.lvl})
                /\ r.total = Len(scanDf)

\* phase5 returned 12+ rebounds at 4 of 5 games, exactly the minimum rate
C1_Witness ==
    /\ scanScript = "phase5"
    /\ Len(scanDf) = 5
    /\ scanRes["REB"].kind = "found"
    /\ scanRes["REB"].lvl = 12
    /\ scanRes["REB"].hits = 4

\* C2: when the first (highest) threshold of a category has a hit rate below
\* the minimum, the scanner returns no result and has evaluated no lower
\* threshold, even when a lower threshold of the list passes.
C2_StopOnFirstMiss ==
    \A cat \in SeqToSet(CATEGORY_ORDER) :
        ( /\ scanRes[cat].kind # "pending"
          /\ Len(scanDf) > 0
          /\ HasColumn(scanDf, cat)
          /\ ~ClaimRatePasses(scanDf, cat, ThresholdsOf(scanScript)[cat][1]) )
        => /\ scanRes[cat].kind = "None"
           /\ scanRes[cat].checked <= 1

\* the example of the specification: points [30,28,...,8] in phase6, where
\* 10+ is met in 9 of 10 games and 30+ in 1 of 10
C2_Witness ==
    /\ scanScript = "phase6"
    /\ scanDf = ExampleWindow("phase6")
    /\ scanRes["PTS"] = Miss(1)
    /\ ClaimRatePasses(scanDf, "PTS", 10)
    /\ ~ClaimRatePasses(scanDf, "PTS", 30)


\* C15: for an empty window every scanner (phase3, phase4, phase5, phase6)
\* returns None for every category without evaluating a threshold, and the
\* caller's loop over the categories ends without an error.
C15_EmptyWindowNoResult ==
    (scanScript \in ScanScripts /\ Len(scanDf) = 0) =>
        /\ scanState # "crashed"
        /\ \A cat \in SeqToSet(CATEGORY_ORDER) :
              /\ scanRes[cat].kind \in {"pending", "None"}
              /\ scanRes[cat].checked = 0
              /\ Scanner(scanScript, scanDf, cat) = None

\* phase3 has scanned the six categories of an empty window
C15_Witness ==
    /\ scanScript = "phase3"
    /\ scanDf = <<>>
    /\ scanState = "done"
    /\ \A cat \in SeqToSet(CATEGORY_ORDER) : scanRes[cat] = None

(***************************************************************************)
(* SpecTrends2: phase2_trends.evaluate_trends on the windows its           *)
(* get_player_logs returns: 1 to NUM_GAMES games (main skips an empty      *)
(* frame), zero-minute games included, FG3M renamed to "3PM"               *)
(***************************************************************************)
MIN_MINUTES == 15

THRESHOLDS2 ==
    [c \in SeqToSet(CATEGORY_ORDER) |->
        CASE c = "PTS" -> <<30, 25, 20, 18, 15>>
          [] c = "REB" -> <<12, 10, 8, 6>>
          [] c = "AST" -> <<12, 10, 8, 6>>
          [] c = "3PM" -> <<4, 3, 2, 1>>
          [] c = "STL" -> <<3, 2, 1>>
          [] c = "BLK" -> <<3, 2, 1>>]

\* minutes per game of the players scanned: a bench player, a starter
MinuteLevels == {10, 30}

WithMinutes(row, m) ==
    [col \in DOMAIN row \cup {"MIN"} |-> IF col = "MIN" THEN m ELSE row[col]]

Windows2 ==
    {[i \in DOMAIN w |-> WithMinutes(w[i], m)] :
        w \in ScanWindows("phase3") \ {<<>>}, m \in MinuteLevels}

RECURSIVE SumMinutes(_)
SumMinutes(df) == IF df = <<>> THEN 0 ELSE Head(df)["MIN"] + SumMinutes(Tail(df))

\* df["MIN"].mean() < MIN_MINUTES
BelowMinutes(df) == SumMinutes(df) < MIN_MINUTES * Len(df)

\* rate = hits / NUM_GAMES; rate >= MIN_HIT_RATE
RateOverNumGames(hits, df) == RateOk(hits, NUM_GAMES)

\* "for lvl in lvls": the break is inside the if, so a miss goes on to the
\* next lower threshold
RECURSIVE LevelsOf2(_, _, _, _)
LevelsOf2(df, stat, lvls, n) ==
    IF lvls = <<>> THEN Miss(n)
    ELSE LET hits == HitCount(df, stat, Head(lvls))
         IN  IF RateOverNumGames(hits, df) THEN Found(Head(lvls), hits, NUM_GAMES, n + 1)
             ELSE LevelsOf2(df, stat, Tail(lvls), n + 1)

\* one pass of "for stat, lvls in THRESHOLDS.items()" of evaluate_trends
evaluate_trends(df, stat) == LevelsOf2(df, stat, THRESHOLDS2[stat], 0)

Trends2Init ==
    /\ scanScript = "phase2"
    /\ scanDf \in Windows2
    /\ scanIdx = 1
    /\ scanRes = [c \in SeqToSet(CATEGORY_ORDER) |-> Pending]
    /\ scanState = "called"
    /\ LoadIdle
    /\ CacheIdle
    /\ SaveIdle
    /\ RetryIdle
    /\ MainIdle
    /\ PickIdle
    /\ ThrIdle
    /\ TmIdle
    /\ ParlayIdle
    /\ NameIdle
    /\ PredIdle

\* if df["MIN"].mean() < MIN_MINUTES: return None
EvaluateMinutes ==
    /\ scanScript = "phase2"
    /\ scanState = "called"
    /\ scanState' = IF BelowMinutes(scanDf) THEN "gated" ELSE "scanning"
    /\ UNCHANGED <<scanScript, scanDf, scanIdx, scanRes, loadVars, cacheVars, saveVars, retryVars, mainVars, pickVars, thrVars, tmVars, parlayVars, nameVars, predVars>>

EvaluateStat ==
    /\ scanScript = "phase2"
    /\ scanState = "scanning"
    /\ scanIdx <= Len(CATEGORY_ORDER)
    /\ scanRes' = [scanRes EXCEPT ![CATEGORY_ORDER[scanIdx]] =
                       evaluate_trends(scanDf, CATEGORY_ORDER[scanIdx])]
    /\ scanIdx' = scanIdx + 1
    /\ UNCHANGED <<scanScript, scanDf, scanState, loadVars, cacheVars, saveVars, retryVars, mainVars, pickVars, thrVars, tmVars, parlayVars, nameVars, predVars>>

\* return results
EvaluateReturn ==
    /\ scanScript = "phase2"
    /\ scanState = "scanning"
    /\ scanIdx > Len(CATEGORY_ORDER)
    /\ scanState' = "done"
    /\ UNCHANGED <<scanScript, scanDf, scanIdx, scanRes, loadVars, cacheVars, saveVars, retryVars, mainVars, pickVars, thrVars, tmVars, parlayVars, nameVars, predVars>>

Trends2Next == EvaluateMinutes \/ EvaluateStat \/ EvaluateReturn

SpecTrends2 == Trends2Init /\ [][Trends2Next]_vars

(***************************************************************************)
(* Claims about evaluate_trends (checked under SpecTrends2)                *)
(***************************************************************************)
\* the thresholds of the phase2 list that pass by hits / window size
ClaimPassing2(df, cat) ==
    {t \in SeqToSet(THRESHOLDS2[cat]) : ClaimRatePasses(df, cat, t)}

\* C13: for windows of 1 to NUM_GAMES games, the rate evaluate_trends
\* compares with MIN_HIT_RATE is hits / window size: a category has a result
\* exactly when some threshold of its list is met in at least 80% of the
\* games of the window, and the rate is taken over the window's length.
C13_RateOverWindowSize ==
    scanScript = "phase2" =>
        \A cat \in SeqToSet(CATEGORY_ORDER) :
            scanRes[cat].kind # "pending" =>
                /\ scanRes[cat].kind = "found" <=> ClaimPassing2(scanDf, cat) # {}
                /\ scanRes[cat].kind = "found" => scanRes[cat].total = Len(scanDf)

\* C14: on a window of NUM_GAMES games, when the highest threshold of a
\* category misses the minimum rate evaluate_trends reports nothing for the
\* category, and its result is the one phase3's loop gives for the same
\* list.
C14_StopsLikePhase3 ==
    (scanScript = "phase2" /\ Len(scanDf) = 10) =>
        \A cat \in SeqToSet(CATEGORY_ORDER) :
            scanRes[cat].kind # "pending" =>
                /\ ~ClaimRatePasses(scanDf, cat, THRESHOLDS2[cat][1])
                      => scanRes[cat].kind = "None"
                /\ scanRes[cat].kind
                      = ScanLevels(scanDf, cat, THRESHOLDS2[cat], 0).kind

(***************************************************************************)
(* The window loaders: get_player_logs (phase3, phase4) and                *)
(* fetch_player_logs (phase5)                                              *)
(***************************************************************************)
MaxGames == 12      \* games the stats source holds for the player
MaxDNP == 2         \* of which games with zero minutes

LoadScripts == {"phase3", "phase4", "phase5"}

\* SEASONS = ["2025-26", "2024-25"], newest first
SEASONS == <<"2025-26", "2024-25">>

\* the lookback count the script's main passes to its loader
LookbackOf(script) ==
    CASE script = "phase3" -> LOOKBACK_GAMES
      [] script = "phase4" -> LOOKBACK_GAMES
      [] script = "phase5" -> LOOKBACK

\* one row of a PlayerGameLog frame: the game's date (a day number) and the
\* minutes played
LogRow(date, dnp) == [GAME_DATE |-> date, MIN |-> IF date \in dnp THEN 0 ELSE 20 + date]

RECURSIVE RowsDescending(_, _, _)
RowsDescending(lo, hi, dnp) ==
    IF hi < lo THEN <<>> ELSE <<LogRow(hi, dnp)>> \o RowsDescending(lo, hi - 1, dnp)

Reverse(s) == [i \in 1..Len(s) |-> s[Len(s) + 1 - i]]

\* the log of the games dated lo..hi, newest first or oldest first
SeasonLog(lo, hi, dnp, order) ==
    IF order = "newest_first" THEN RowsDescending(lo, hi, dnp)
    ELSE Reverse(RowsDescending(lo, hi, dnp))

LogOrders == {"newest_first", "oldest_first"}

HoursPerDay == 24

\* pd.to_datetime of a frame's GAME_DATE column: a date becomes the timestamp
\* of its midnight (in hours)
to_datetime(day) == day * HoursPerDay

ParseDates(df) ==
    [i \in 1..Len(df) |-> [df[i] EXCEPT !.GAME_DATE = to_datetime(df[i].GAME_DATE)]]

\* the stat columns the loaders of phase3, phase4 and phase5 guarantee
StatColumns == {"PTS", "REB", "AST", "STL", "BLK"}

\* the loaders left without their column fills
FillNothing(df) == df

\* df["3PM"] = df["FG3M"] if the log has FG3M, else 0; each of PTS, REB, AST,
\* STL, BLK the log lacks is added with value 0
FillStats(df) ==
    [i \in 1..Len(df) |->
        [col \in DOMAIN df[i] \cup StatColumns \cup {"3PM"} |->
            IF col = "3PM"
            THEN (IF "FG3M" \in DOMAIN df[i] THEN df[i]["FG3M"] ELSE 0)
            ELSE IF col \in DOMAIN df[i] THEN df[i][col] ELSE 0]]

\* df[df["MIN"] > 0]
DropDNP(df) == SelectSeq(df, LAMBDA r : r.MIN > 0)

\* the filter left out
KeepDNP(df) == df

\* insertion of a row into a frame sorted by GAME_DATE, newest first
RECURSIVE InsertByDate(_, _)
InsertByDate(r, sorted) ==
    IF sorted = <<>> THEN <<r>>
    ELSE IF r.GAME_DATE >= Head(sorted).GAME_DATE THEN <<r>> \o sorted
    ELSE <<Head(sorted)>> \o InsertByDate(r, Tail(sorted))

RECURSIVE SortRows(_)
SortRows(df) ==
    IF df = <<>> THEN <<>> ELSE InsertByDate(Head(df), SortRows(Tail(df)))

\* the frame left in the order of concatenation
SortSkipped(df) == df

\* df_all.sort_values("GAME_DATE", ascending=False)
SortNewestFirst(df) == SortRows(df)

\* head of the whole frame
HeadAll(df, n) == df

\* df.head(n)
HeadN(df, n) == SubSeq(df, 1, IF Len(df) < n THEN Len(df) ELSE n)

LoadInit ==
    /\ ScanIdle
    /\ CacheIdle
    /\ SaveIdle
    /\ RetryIdle
    /\ MainIdle
    /\ PickIdle
    /\ ThrIdle
    /\ TmIdle
    /\ ParlayIdle
    /\ NameIdle
    /\ PredIdle
    /\ loadScript \in LoadScripts
    /\ \E total \in 0..MaxGames, split \in 0..MaxGames, order \in LogOrders :
         \E dnp \in {d \in SUBSET (1..total) : Cardinality(d) <= MaxDNP} :
            /\ split <= total
            /\ stats = << SeasonLog(split + 1, total, dnp, order),
                          SeasonLog(1, split, dnp, order) >>
    /\ loadSeason = 1
    /\ loadFailed = {}
    /\ df_all = <<>>
    /\ loadOut = <<>>
    /\ loadPc = "loop"

\* after a pass of the loop: "if len(df_all) >= lookback: break", or the
\* list of seasons is exhausted
LoopExit(df) ==
    \/ Len(df) >= LookbackOf(loadScript)
    \/ loadSeason = Len(SEASONS)

\* one pass of "for season in SEASONS" whose fetch succeeds
LoadSeasonOk ==
    /\ loadPc = "loop"
    /\ LET df == FillStats(ParseDates(DropDNP(stats[loadSeason])))
           all == df_all \o df
       IN  /\ df_all' = all
           /\ loadPc' = IF LoopExit(all) THEN "sort" ELSE "loop"
           /\ loadSeason' = IF LoopExit(all) THEN loadSeason ELSE loadSeason + 1
    /\ UNCHANGED <<loadScript, stats, loadFailed, loadOut, scanVars, cacheVars, saveVars, retryVars, mainVars, pickVars, thrVars, tmVars, parlayVars, nameVars, predVars>>

\* one pass whose fetch raises: "except: pass"
LoadSeasonFails ==
    /\ loadPc = "loop"
    /\ loadFailed' = loadFailed \cup {loadSeason}
    /\ loadPc' = IF LoopExit(df_all) THEN "sort" ELSE "loop"
    /\ loadSeason' = IF LoopExit(df_all) THEN loadSeason ELSE loadSeason + 1
    /\ UNCHANGED <<loadScript, stats, df_all, loadOut, scanVars, cacheVars, saveVars, retryVars, mainVars, pickVars, thrVars, tmVars, parlayVars, nameVars, predVars>>

\* after the loop: empty frame returned as it is, else sort and head
LoadReturn ==
    /\ loadPc = "sort"
    /\ loadOut' = IF df_all = <<>> THEN <<>>
                  ELSE HeadN(SortNewestFirst(df_all), LookbackOf(loadScript))
    /\ loadPc' = "done"
    /\ UNCHANGED <<loadScript, stats, loadSeason, loadFailed, df_all, scanVars, cacheVars, saveVars, retryVars, mainVars, pickVars, thrVars, tmVars, parlayVars, nameVars, predVars>>

LoadNext == LoadSeasonOk \/ LoadSeasonFails \/ LoadReturn

SpecLoad == LoadInit /\ [][LoadNext]_vars

(***************************************************************************)
(* Claims about the loaders (checked under SpecLoad)                       *)
(***************************************************************************)
\* the rows with minutes of the logs the stats source returns
ClaimQualifying ==
    {r \in UNION {SeqToSet(stats[s]) : s \in (DOMAIN stats) \ loadFailed} : r.MIN # 0}

\* the n most recent rows of a set (all of them when it has fewer)
ClaimMostRecent(rows, n) ==
    {r \in rows : Cardinality({q \in rows : q.GAME_DATE > r.GAME_DATE}) < n}

\* C3: the window a loader (phase3, phase4, phase5) returns holds no record
\* with zero minutes, is sorted by game date newest first, has at most
\* N = lookback records and consists of the N most recent qualifying records
\* of the logs the source returned (all of them when fewer than N qualify).
C3_WindowIsMostRecent ==
    loadPc = "done" =>
        /\ \A i \in DOMAIN loadOut : loadOut[i].MIN # 0
        /\ \A i, j \in DOMAIN loadOut :
              i < j => loadOut[i].GAME_DATE > loadOut[j].GAME_DATE
        /\ Len(loadOut) <= LookbackOf(loadScript)
        /\ {[GAME_DATE |-> day * 24, MIN |-> minutes] :
                <<day, minutes>> \in {<<r.GAME_DATE, r.MIN>> :
                    r \in ClaimMostRecent(ClaimQualifying, LookbackOf(loadScript))}}
              = {[GAME_DATE |-> r.GAME_DATE, MIN |-> r.MIN] : r \in SeqToSet(loadOut)}

\* 12 raw records over two seasons, listed oldest first, 2 of them with zero
\* minutes: the window holds the 10 qualifying records
C3_Witness ==
    /\ loadPc = "done"
    /\ loadFailed = {}
    /\ Len(stats[1]) + Len(stats[2]) = 12
    /\ Len(stats[1]) >= 2
    /\ stats[1][1].GAME_DATE < stats[1][2].GAME_DATE
    /\ Cardinality({r \in SeqToSet(stats[1]) \cup SeqToSet(stats[2]) : r.MIN = 0}) = 2
    /\ Len(loadOut) = 10


(***************************************************************************)
(* SpecRecent: test_multi_player_stats.get_recent_games, one request at a  *)
(* time: the logs of SEASONS x SEASON_TYPES are concatenated in the order  *)
(* of the loops, a request that raises is passed over, the frame is sorted *)
(* and cut to NUM_GAMES.  Games without minutes are not filtered.          *)
(***************************************************************************)
SEASON_TYPES == <<"Regular Season", "Playoffs">>

\* the requests in the order of the loops: (season, season type)
RecentRequests ==
    [k \in 1..(Len(SEASONS) * Len(SEASON_TYPES)) |->
        <<SEASONS[((k - 1) \div Len(SEASON_TYPES)) + 1],
          SEASON_TYPES[((k - 1) % Len(SEASON_TYPES)) + 1]>>]

\* which of the four date ranges, oldest to newest, each request returns
RangeOrders == { <<4, 3, 2, 1>>, <<1, 2, 3, 4>>, <<3, 4, 1, 2>>, <<2, 4, 1, 3>> }

RecentInit ==
    /\ ScanIdle
    /\ CacheIdle
    /\ SaveIdle
    /\ RetryIdle
    /\ MainIdle
    /\ PickIdle
    /\ ThrIdle
    /\ TmIdle
    /\ ParlayIdle
    /\ NameIdle
    /\ PredIdle
    /\ loadScript = "test_multi_player_stats"
    /\ \E total \in 0..MaxGames, a \in 0..MaxGames, b \in 0..MaxGames,
          c \in 0..MaxGames, o \in RangeOrders :
          /\ a <= b /\ b <= c /\ c <= total
          /\ LET cut == <<0, a, b, c, total>>
             IN  stats = [k \in 1..Len(RecentRequests) |->
                            SeasonLog(cut[o[k]] + 1, cut[o[k] + 1], {total}, "newest_first")]
    /\ loadSeason = 1
    /\ loadFailed = {}
    /\ df_all = <<>>
    /\ loadOut = <<>>
    /\ loadPc = "loop"

\* a request returns: all_logs = pd.concat([all_logs, logs])
RecentFetchOk ==
    /\ loadScript = "test_multi_player_stats"
    /\ loadPc = "loop"
    /\ df_all' = df_all \o stats[loadSeason]
    /\ loadPc' = IF loadSeason = Len(RecentRequests) THEN "sort" ELSE "loop"
    /\ loadSeason' = IF loadSeason = Len(RecentRequests) THEN loadSeason ELSE loadSeason + 1
    /\ UNCHANGED <<loadScript, stats, loadFailed, loadOut, scanVars, cacheVars, saveVars, retryVars, mainVars, pickVars, thrVars, tmVars, parlayVars, nameVars, predVars>>

\* a request raises: "except Exception as e: pass"
RecentFetchFails ==
    /\ loadScript = "test_multi_player_stats"
    /\ loadPc = "loop"
    /\ loadFailed' = loadFailed \cup {loadSeason}
    /\ loadPc' = IF loadSeason = Len(RecentRequests) THEN "sort" ELSE "loop"
    /\ loadSeason' = IF loadSeason = Len(RecentRequests) THEN loadSeason ELSE loadSeason + 1
    /\ UNCHANGED <<loadScript, stats, df_all, loadOut, scanVars, cacheVars, saveVars, retryVars, mainVars, pickVars, thrVars, tmVars, parlayVars, nameVars, predVars>>

\* the columns get_recent_games keeps, of those the rows carry
RecentColumns == {"GAME_DATE", "MATCHUP", "MIN", "PTS", "REB", "AST", "FG3M"}

KeepColumns(df) ==
    [i \in 1..Len(df) |-> [c \in RecentColumns \cap DOMAIN df[i] |-> df[i][c]]]

\* empty: an empty frame; else to_datetime, sort_values(ascending=False),
\* the columns, head(NUM_GAMES)
RecentReturn ==
    /\ loadScript = "test_multi_player_stats"
    /\ loadPc = "sort"
    /\ loadOut' = IF df_all = <<>> THEN <<>>
                  ELSE HeadN(KeepColumns(SortNewestFirst(ParseDates(df_all))), NUM_GAMES)
    /\ loadPc' = "done"
    /\ UNCHANGED <<loadScript, stats, loadSeason, loadFailed, df_all, scanVars, cacheVars, saveVars, retryVars, mainVars, pickVars, thrVars, tmVars, parlayVars, nameVars, predVars>>

RecentNext == RecentFetchOk \/ RecentFetchFails \/ RecentReturn

SpecRecent == RecentInit /\ [][RecentNext]_vars

(***************************************************************************)
(* Claims about get_recent_games (checked under SpecRecent)                *)
(***************************************************************************)
\* the games of the logs that were fetched
ClaimFetched ==
    UNION {SeqToSet(stats[s]) : s \in (DOMAIN stats) \ loadFailed}

\* C17: get_recent_games returns, newest first, the min(NUM_GAMES, total)
\* most recent games among all games of the logs that were fetched, whatever
\* the order in which the logs hold the dates and whichever requests failed;
\* with no log fetched the result is empty.
C17_RecentAcrossLogs ==
    (loadScript = "test_multi_player_stats" /\ loadPc = "done") =>
        /\ \A i, j \in DOMAIN loadOut :
              i < j => loadOut[i].GAME_DATE > loadOut[j].GAME_DATE
        /\ Len(loadOut) = (IF Cardinality(ClaimFetched) < 10
                           THEN Cardinality(ClaimFetched) ELSE 10)
        /\ {[GAME_DATE |-> r.GAME_DATE * 24, MIN |-> r.MIN] :
                r \in ClaimMostRecent(ClaimFetched, 10)}
              = SeqToSet(loadOut)
        /\ loadFailed = DOMAIN stats => loadOut = <<>>

\* 12 games in four logs that are not in the order of their dates, the
\* third request failed: the 10 most recent of the three other logs
C17_Witness ==
    /\ loadScript = "test_multi_player_stats"
    /\ loadPc = "done"
    /\ loadFailed = {3}
    /\ Len(stats[1]) = 3 /\ Len(stats[2]) = 5 /\ Len(stats[3]) = 1 /\ Len(stats[4]) = 3
    /\ stats[1][1].GAME_DATE < stats[4][1].GAME_DATE
    /\ stats[4][1].GAME_DATE < stats[2][1].GAME_DATE
    /\ Len(loadOut) = 10
    /\ loadOut[1].MIN = 0

(***************************************************************************)
(* The file caches.  A cache file is absent, holds a complete JSON         *)
(* document, or holds text that does not parse (a torn write).             *)
(***************************************************************************)
MaxHour == 48           \* the clock runs from hour 0 to this hour
MaxPlayed == 2          \* games the player plays while the clock runs

CACHE_MAX_AGE_HOURS == 24
CACHE_EXPIRY_HOURS == 24
CACHE_EXPIRY_HOURS_PARLAYS == 24
NUM_GAMES_LOOKBACK == 10
NUM_GAMES_LOOKBACK_PARLAYS == 20
MaxAttempts == 3

CacheScripts == {"phase5", "phase6", "final"}

Absent == [kind |-> "absent"]
Torn(t) == [kind |-> "torn", mtime |-> t]
Json(t, doc) == [kind |-> "json", mtime |-> t, doc |-> doc]

NoCall == [kind |-> "none", path |-> "none"]

\* strftime("%Y-%m-%d") of a timestamp: its date; strptime of a date: its midnight
strftime_ymd(ts) == ts \div HoursPerDay
strptime_ymd(day) == day * HoursPerDay

today(t) == t \div HoursPerDay

Raise == [kind |-> "raise", rows |-> <<>>]
Frame(rows) == [kind |-> "frame", rows |-> rows]

\* ---- phase5 ----------------------------------------------------------

\* datetime.now() - strptime(data["updated"], "%Y-%m-%d") > timedelta(hours=24)
StaleSinceUpdated(file, t) ==
    t - strptime_ymd(file.doc.updated) > CACHE_MAX_AGE_HOURS

load_cached_logs(file, t) ==
    IF file.kind = "absent" THEN Frame(<<>>)
    ELSE IF file.kind = "torn" THEN Raise                  \* json.load
    ELSE IF StaleSinceUpdated(file, t) THEN Frame(<<>>)
    ELSE IF file.doc.logs = <<>> THEN Raise                \* df["GAME_DATE"]
    ELSE Frame(SortNewestFirst(ParseDates(file.doc.logs)))

save_cached_logs(df, t) ==
    Json(t, [updated |-> strftime_ymd(t),
             logs |-> [i \in 1..Len(df) |->
                          [df[i] EXCEPT !.GAME_DATE = strftime_ymd(df[i].GAME_DATE)]]])

\* df["GAME_DATE"].max() of a non-empty frame
newest_game_date(df) ==
    CHOOSE d \in {df[i].GAME_DATE : i \in DOMAIN df} :
        \A i \in DOMAIN df : df[i].GAME_DATE <= d

\* the loop of fetch_player_logs from season i on; `failed` are the seasons
\* whose request raises
RECURSIVE FetchLoop(_, _, _, _)
FetchLoop(src, failed, i, acc) ==
    IF i > Len(src) THEN [rows |-> acc, requests |-> i - 1]
    ELSE LET part == IF i \in failed THEN <<>>
                     ELSE FillStats(ParseDates(DropDNP(src[i])))
             all  == acc \o part
         IN  IF Len(all) >= LOOKBACK THEN [rows |-> all, requests |-> i]
             ELSE FetchLoop(src, failed, i + 1, all)

fetch_player_logs(src, failed) ==
    LET got == FetchLoop(src, failed, 1, <<>>)
    IN  [rows |-> IF got.rows = <<>> THEN <<>>
                  ELSE HeadN(SortNewestFirst(got.rows), LOOKBACK),
         requests |-> got.requests]

\* a usable entry returned whatever its newest game
CacheHitAnyDate(cached, t) == cached.rows # <<>>

\* "return cached" only with a usable entry whose newest game is of today
CacheHit5(cached, t) ==
    /\ cached.rows # <<>>
    /\ strftime_ymd(newest_game_date(cached.rows)) >= today(t)

\* the fetched window written back whatever it holds
SavesAlways(fresh) == TRUE

\* "if not fresh.empty:" guarding save_cached_logs(pid, fresh)
SavesFresh(fresh) == fresh # <<>>

get_player_logs(file, t, src, failed) ==
    LET cached == load_cached_logs(file, t)
    IN  IF cached.kind = "raise"
        THEN [kind |-> "raised", path |-> "load", ret |-> <<>>, requests |-> 0,
              fresh |-> <<>>, wrote |-> "none", file |-> file]
        ELSE IF CacheHit5(cached, t)
        THEN [kind |-> "returned", path |-> "hit", ret |-> cached.rows, requests |-> 0,
              fresh |-> <<>>, wrote |-> "none", file |-> file]
        ELSE LET got == fetch_player_logs(src, failed)
                 save == SavesFresh(got.rows)
             IN  [kind |-> "returned", path |-> "fetched", ret |-> got.rows,
                  requests |-> got.requests, fresh |-> got.rows,
                  wrote |-> IF save THEN "written" ELSE "none",
                  file |-> IF save THEN save_cached_logs(got.rows, t) ELSE file]


\* ---- phase6 ----------------------------------------------------------

\* df2["GAME_DATE"].astype(str); df2.to_dict("records")
Records6(df) ==
    [i \in 1..Len(df) |-> [df[i] EXCEPT !.GAME_DATE = strftime_ymd(df[i].GAME_DATE)]]

\* a load that finds no entry, whatever the file holds
safe_cache_load_nothing(file) == [kind |-> "None", rows |-> <<>>, removed |-> FALSE]

\* safe_cache_load: the frame, or None; a file that does not load is removed
safe_cache_load(file) ==
    IF file.kind = "absent" THEN [kind |-> "None", rows |-> <<>>, removed |-> FALSE]
    ELSE IF file.kind = "json" /\ file.doc # <<>>
    THEN [kind |-> "frame", rows |-> SortNewestFirst(ParseDates(file.doc)), removed |-> FALSE]
    ELSE [kind |-> "None", rows |-> <<>>, removed |-> TRUE]

\* the loop of get_logs from season i on; a request that raises ends the call
RECURSIVE LogsLoop(_, _, _, _)
LogsLoop(src, failed, i, acc) ==
    IF i > Len(src) THEN [raised |-> FALSE, rows |-> acc, requests |-> i - 1]
    ELSE IF i \in failed THEN [raised |-> TRUE, rows |-> acc, requests |-> i]
    ELSE LET all == acc \o ParseDates(DropDNP(src[i]))
         IN  IF Len(all) >= NUM_GAMES
             THEN [raised |-> FALSE, rows |-> all, requests |-> i]
             ELSE LogsLoop(src, failed, i + 1, all)

\* get_logs(pid): the cached frame when it holds NUM_GAMES rows, else the
\* seasons fetched, saved and cut to NUM_GAMES; path "nothing" returns None
get_logs(file, t, src, failed) ==
    LET cached == safe_cache_load(file)
        left   == IF cached.removed THEN Absent ELSE file
        got    == LogsLoop(src, failed, 1, <<>>)
        sorted == SortNewestFirst(got.rows)
    IN  IF cached.kind = "frame" /\ Len(cached.rows) >= NUM_GAMES
        THEN [kind |-> "returned", path |-> "hit", ret |-> HeadN(cached.rows, NUM_GAMES),
              requests |-> 0, fresh |-> <<>>, wrote |-> "none", file |-> file]
        ELSE IF got.raised
        THEN [kind |-> "raised", path |-> "fetch", ret |-> <<>>,
              requests |-> got.requests, fresh |-> <<>>, wrote |-> "none", file |-> left]
        ELSE IF got.rows = <<>>
        THEN [kind |-> "returned", path |-> "nothing", ret |-> <<>>,
              requests |-> got.requests, fresh |-> <<>>, wrote |-> "none", file |-> left]
        ELSE [kind |-> "returned", path |-> "fetched", ret |-> HeadN(sorted, NUM_GAMES),
              requests |-> got.requests, fresh |-> sorted, wrote |-> "written",
              file |-> Json(t, Records6(sorted))]

\* ---- nba_trends_final, nba_trends_parlays_final ------------------------

\* the age test letting an entry of exactly the expiry age pass
is_cache_valid_inclusive(file, t) ==
    /\ file.kind # "absent"
    /\ t - file.mtime <= CACHE_EXPIRY_HOURS

\* os.path.exists(path) and now - mtime < timedelta(hours=CACHE_EXPIRY_HOURS)
is_cache_valid(file, t) ==
    /\ file.kind # "absent"
    /\ t - file.mtime < CACHE_EXPIRY_HOURS

\* is_cache_valid of nba_trends_parlays_final
is_cache_valid_parlays(file, t) ==
    /\ file.kind # "absent"
    /\ t - file.mtime < CACHE_EXPIRY_HOURS_PARLAYS

\* json.load of the file; any exception gives the empty frame
load_cache(file) == IF file.kind = "json" THEN file.doc ELSE <<>>

WriteOutcomes == {"written", "failed", "torn"}

\* df.to_json(path): written, or an exception (swallowed) that leaves the
\* file as it was or torn
save_cache(file, df, t, w) ==
    CASE w = "written" -> Json(t, df)
      [] w = "failed"  -> file
      [] w = "torn"    -> Torn(t)

\* after the retries are used up, nothing is returned
FallbackEmpty(file) == <<>>

\* "return load_cache(player_name)" after the retry loop
Fallback(file) == load_cache(file)

\* get_last_n_games.  `matched`: the name is found in the static player list;
\* `fails`: the number of attempts that raise before one succeeds;
\* `w`: how the write of save_cache ends; `allTime`: whether the all-time
\* request of the parlays script succeeds.
get_last_n_games(script, file, t, src, num_games, matched, fails, w, allTime) ==
    IF is_cache_valid(file, t)
    THEN [kind |-> "returned", path |-> "hit", ret |-> HeadN(load_cache(file), num_games),
          requests |-> 0, fresh |-> <<>>, wrote |-> "none", file |-> file]
    ELSE IF ~matched
    THEN [kind |-> "returned", path |-> "unmatched", ret |-> <<>>, requests |-> 0,
          fresh |-> <<>>, wrote |-> "none", file |-> file]
    ELSE IF fails >= MaxAttempts
    THEN [kind |-> "returned", path |-> "exhausted", ret |-> Fallback(file),
          requests |-> MaxAttempts, fresh |-> <<>>, wrote |-> "none", file |-> file]
    ELSE LET season == src[1]
             more   == script = "parlays" /\ Len(season) < num_games
             logs   == IF more /\ allTime THEN src[1] \o src[2] ELSE season
         IN  [kind |-> "returned", path |-> "fetched", ret |-> HeadN(logs, num_games),
              requests |-> fails + 1 + (IF more THEN 1 ELSE 0),
              fresh |-> logs, wrote |-> w, file |-> save_cache(file, logs, t, w)]

\* the lookback count main passes, and a shorter one
NumGamesArgs(script) ==
    IF script = "parlays" THEN {1, NUM_GAMES_LOOKBACK_PARLAYS} ELSE {1, NUM_GAMES_LOOKBACK}

(***************************************************************************)
(* SpecCache: calls of the cached fetch while time passes and games are    *)
(* played                                                                  *)
(***************************************************************************)
OldSeason == << [GAME_DATE |-> 0 - 200, MIN |-> 25] >>

\* the previous season of a player who played NUM_GAMES games in it
FullSeason == [i \in 1..NUM_GAMES |-> [GAME_DATE |-> 0 - 200 - i, MIN |-> 25]]

CacheInit ==
    /\ ScanIdle
    /\ LoadIdle
    /\ SaveIdle
    /\ RetryIdle
    /\ MainIdle
    /\ PickIdle
    /\ ThrIdle
    /\ TmIdle
    /\ ParlayIdle
    /\ NameIdle
    /\ PredIdle
    /\ cScript \in CacheScripts
    /\ now = 0
    /\ cFile = Absent
    /\ cStats = << <<>>, IF cScript = "phase6" THEN FullSeason ELSE OldSeason >>
    /\ call = NoCall

\* an hour passes
Tick ==
    /\ cScript \in CacheScripts
    /\ now < MaxHour
    /\ now' = now + 1
    /\ call' = NoCall
    /\ UNCHANGED <<cScript, cFile, cStats, scanVars, loadVars, saveVars, retryVars, mainVars, pickVars, thrVars, tmVars, parlayVars, nameVars, predVars>>

\* the player plays today; the source lists the game first
GamePlayed ==
    /\ cScript \in CacheScripts
    /\ Len(cStats[1]) < MaxPlayed
    /\ \A i \in DOMAIN cStats[1] : cStats[1][i].GAME_DATE # today(now)
    /\ cStats' = [cStats EXCEPT ![1] = <<[GAME_DATE |-> today(now), MIN |-> 30]>> \o @]
    /\ call' = NoCall
    /\ UNCHANGED <<cScript, now, cFile, scanVars, loadVars, saveVars, retryVars, mainVars, pickVars, thrVars, tmVars, parlayVars, nameVars, predVars>>

\* what a call did: how it ended, the path it took, what it returned, the
\* requests it made to the stats source, the frame it fetched, how its write
\* ended, the file it found (`pre`; cFile is the file it left)
CallRecord(o) ==
    [kind |-> o.kind, path |-> o.path, ret |-> o.ret, requests |-> o.requests,
     fresh |-> o.fresh, wrote |-> o.wrote, pre |-> cFile]

\* phase5: get_player_logs(pid)
GetPlayerLogs ==
    /\ cScript = "phase5"
    /\ \E failed \in SUBSET (1..Len(SEASONS)) :
          LET o == get_player_logs(cFile, now, cStats, failed)
          IN  /\ cFile' = o.file
              /\ call' = CallRecord(o)
    /\ UNCHANGED <<cScript, now, cStats, scanVars, loadVars, saveVars, retryVars, mainVars, pickVars, thrVars, tmVars, parlayVars, nameVars, predVars>>

\* phase5: get_player_logs(pid) with the process killed while
\* save_cached_logs writes the file it has opened with mode "w"
GetPlayerLogsKilled ==
    /\ cScript = "phase5"
    /\ \E failed \in SUBSET (1..Len(SEASONS)) :
          LET o == get_player_logs(cFile, now, cStats, failed)
          IN  /\ o.path = "fetched" /\ o.wrote = "written"
              /\ cFile' = Torn(now)
              /\ call' = [kind |-> "killed", path |-> "fetched"]
    /\ UNCHANGED <<cScript, now, cStats, scanVars, loadVars, saveVars, retryVars, mainVars, pickVars, thrVars, tmVars, parlayVars, nameVars, predVars>>

\* phase6: get_logs(pid)
GetLogs ==
    /\ cScript = "phase6"
    /\ \E failed \in SUBSET (1..Len(SEASONS)) :
          LET o == get_logs(cFile, now, cStats, failed)
          IN  /\ o.path = "hit" => failed = {}
              /\ cFile' = o.file
              /\ call' = CallRecord(o)
    /\ UNCHANGED <<cScript, now, cStats, scanVars, loadVars, saveVars, retryVars, mainVars, pickVars, thrVars, tmVars, parlayVars, nameVars, predVars>>

\* the inputs a call does not read on the path it takes are left at one value
InputsRead(matched, fails, w) ==
    /\ is_cache_valid(cFile, now) => matched
    /\ (is_cache_valid(cFile, now) \/ ~matched) => fails = 0
    /\ (is_cache_valid(cFile, now) \/ ~matched \/ fails >= MaxAttempts) => w = "written"

\* final: get_last_n_games(player_name, num_games)
GetLastNGames ==
    /\ cScript = "final"
    /\ \E num_games \in NumGamesArgs(cScript), matched \in BOOLEAN,
          fails \in 0..MaxAttempts, w \in WriteOutcomes :
          LET o == get_last_n_games(cScript, cFile, now, cStats, num_games,
                                    matched, fails, w, FALSE)
          IN  /\ InputsRead(matched, fails, w)
              /\ cFile' = o.file
              /\ call' = CallRecord(o) @@ [num_games |-> num_games]
    /\ UNCHANGED <<cScript, now, cStats, scanVars, loadVars, saveVars, retryVars, mainVars, pickVars, thrVars, tmVars, parlayVars, nameVars, predVars>>

CacheNext ==
    \/ Tick
    \/ GamePlayed
    \/ GetPlayerLogs
    \/ GetPlayerLogsKilled
    \/ GetLogs
    \/ GetLastNGames

SpecCache == CacheInit /\ [][CacheNext]_vars

\* C23: every window get_last_n_games(player, num_games) returns holds at
\* most num_games records, whichever way it returns: valid cache, fetch,
\* unmatched player, or the cached entry after the failed attempts.
C23_WindowAtMostNumGames ==
    (cScript = "final" /\ call.kind = "returned") => Len(call.ret) <= call.num_games


(***************************************************************************)
(* Claims about the caches (checked under SpecCache)                       *)
(***************************************************************************)
ClaimEnded == call.kind \in {"returned", "raised"}

\* the newest game date (a day) among the records of a phase5 entry
ClaimNewestDay(file) ==
    CHOOSE d \in {file.doc.logs[i].GAME_DATE : i \in DOMAIN file.doc.logs} :
        \A i \in DOMAIN file.doc.logs : file.doc.logs[i].GAME_DATE <= d

\* the returned frame holds the records of the entry, newest first
ClaimReturnsEntry(ret, file) ==
    /\ {[GAME_DATE |-> r.GAME_DATE \div 24, MIN |-> r.MIN] : r \in SeqToSet(ret)}
          = {[GAME_DATE |-> r.GAME_DATE, MIN |-> r.MIN] : r \in SeqToSet(file.doc.logs)}
    /\ Len(ret) = Len(file.doc.logs)
    /\ \A i, j \in DOMAIN ret : i < j => ret[i].GAME_DATE >= ret[j].GAME_DATE

\* C4 as stated, for entries that parse: phase5 get_player_logs returns the
\* cached records without calling the stats source whenever an entry exists
\* and either its age is below CACHE_MAX_AGE_HOURS or its newest game date is
\* today or later; in every other case the stats source is fetched.
C4_HitOnFreshOrToday ==
    (cScript = "phase5" /\ ClaimEnded /\ call.pre.kind # "torn") =>
        LET pre == call.pre
            hit == /\ pre.kind = "json"
                   /\ \/ now - pre.mtime < 24
                      \/ (pre.doc.logs # <<>> /\ ClaimNewestDay(pre) >= now \div 24)
        IN  IF hit
            THEN call.path = "hit" /\ call.requests = 0 /\ ClaimReturnsEntry(call.ret, pre)
            ELSE call.path = "fetched" /\ call.requests > 0

\* C4, amended: the cached records are returned without a call of the stats
\* source exactly when an entry exists that parses, at most
\* CACHE_MAX_AGE_HOURS have passed since 00:00 of the day it was saved, and
\* its newest game date is today or later; an entry that does not parse makes
\* the call raise without fetching; in every other case the source is fetched.
C4_HitNeedsFreshAndToday ==
    (cScript = "phase5" /\ ClaimEnded) =>
        LET pre == call.pre
            hit == /\ pre.kind = "json"
                   /\ now - 24 * pre.doc.updated <= 24
                   /\ pre.doc.logs # <<>>
                   /\ ClaimNewestDay(pre) >= now \div 24
        IN  CASE pre.kind = "torn" -> call.kind = "raised" /\ call.requests = 0
              [] hit -> /\ call.kind = "returned"
                        /\ call.path = "hit"
                        /\ call.requests = 0
                        /\ ClaimReturnsEntry(call.ret, pre)
                        /\ cFile = pre
              [] OTHER -> /\ call.kind = "returned"
                          /\ call.path = "fetched"
                          /\ call.requests > 0

\* an entry saved earlier the same day, holding today's game, is returned
C4_Witness ==
    /\ cScript = "phase5"
    /\ call.path = "hit"
    /\ call.kind = "returned"
    /\ call.pre.mtime < now
    /\ call.requests = 0
    /\ call.ret # <<>>

\* C5: is_cache_valid (final, parlays) holds of an entry written at T exactly
\* at the times earlier than T + 24h, so at T + 23h and not at T + 25h; it
\* never holds of a missing entry; get_last_n_games answers from the entry
\* exactly then.
C5_ValidUntil24h ==
    cScript = "final" =>
        /\ cFile.kind = "absent" =>
              ~is_cache_valid(cFile, now) /\ ~is_cache_valid_parlays(cFile, now)
        /\ cFile.kind # "absent" =>
              /\ is_cache_valid(cFile, now) <=> now < cFile.mtime + 24
              /\ is_cache_valid_parlays(cFile, now) <=> now < cFile.mtime + 24
              /\ now = cFile.mtime + 23 => is_cache_valid(cFile, now)
              /\ now = cFile.mtime + 25 => ~is_cache_valid(cFile, now)
        /\ ClaimEnded =>
              (call.path = "hit" <=>
                  (call.pre.kind # "absent" /\ now < call.pre.mtime + 24))

\* an entry written at 14:00 answers a call 23 hours later
C5_Witness ==
    /\ cScript = "final"
    /\ call.path = "hit"
    /\ call.pre.mtime = 14
    /\ now = call.pre.mtime + 23
    /\ call.requests = 0

\* C6: a phase5 entry saved at T, for every time of day T, is accepted by
\* load_cached_logs at T + 23h and rejected at T + 25h.
C6_AcceptedAt23RejectedAt25 ==
    (cScript = "phase5" /\ cFile.kind = "json") =>
        /\ now = cFile.mtime + 23 =>
              (load_cached_logs(cFile, now).kind = "frame"
                 /\ load_cached_logs(cFile, now).rows # <<>>)
        /\ now = cFile.mtime + 25 => load_cached_logs(cFile, now) = Frame(<<>>)

\* C7: in nba_trends_final, a call whose entry is not valid and whose 3 fetch
\* attempts all fail returns the records of the entry it found, stale as it
\* is, or the empty window when there is no entry or it cannot be read; no
\* call of get_last_n_games raises.
C7_FallbackToStaleCache ==
    (cScript = "final" /\ call.kind # "none") =>
        /\ call.kind = "returned"
        /\ call.path = "exhausted" =>
              /\ call.requests = 3
              /\ ~(call.pre.kind # "absent" /\ now - call.pre.mtime < 24)
              /\ call.ret = (IF call.pre.kind = "json" THEN call.pre.doc ELSE <<>>)
              /\ cFile = call.pre

\* a two-game entry a day old is returned after 3 failed attempts
C7_Witness ==
    /\ cScript = "final"
    /\ call.kind = "returned"
    /\ call.path = "exhausted"
    /\ call.pre.kind = "json"
    /\ now - call.pre.mtime >= 24
    /\ Len(call.ret) = 2
    /\ call.ret = call.pre.doc

C11_StaleEntryRefetched ==
    (cScript = "phase6" /\ ClaimEnded /\ call.pre.kind = "json") =>
        LET pre == call.pre
            newest == CHOOSE d \in {pre.doc[i].GAME_DATE : i \in DOMAIN pre.doc} :
                         \A i \in DOMAIN pre.doc : pre.doc[i].GAME_DATE <= d
        IN  (now - pre.mtime > 24 \/ now \div 24 > newest) =>
               /\ call.requests > 0
               /\ call.kind = "returned" => (call.path = "fetched" /\ cFile.mtime = now)

\* the first NUM_GAMES records of a phase6 entry, as rows of a frame
ClaimWindowOf(file) ==
    [i \in 1..NUM_GAMES |-> [file.doc[i] EXCEPT !.GAME_DATE = @ * 24]]

\* C29: in phase6, a get_logs call that fetched at least NUM_GAMES records
\* returns the window its entry holds, and every call that finds such an
\* entry returns that same window, makes no request to the stats source and
\* leaves the file as it is.
C29_CachedWindowServedAgain ==
    (cScript = "phase6" /\ call.kind = "returned") =>
        /\ (call.path = "fetched" /\ Len(call.fresh) >= NUM_GAMES) =>
               /\ cFile.kind = "json"
               /\ Len(cFile.doc) = Len(call.fresh)
               /\ call.ret = ClaimWindowOf(cFile)
        /\ (call.pre.kind = "json" /\ Len(call.pre.doc) >= NUM_GAMES) =>
               /\ call.ret = ClaimWindowOf(call.pre)
               /\ call.requests = 0
               /\ cFile = call.pre

\* a call served from an entry of more than NUM_GAMES records written
\* earlier, after the player has played a game the entry does not hold
C29_Witness ==
    /\ cScript = "phase6"
    /\ call.kind = "returned"
    /\ call.path = "hit"
    /\ Len(call.pre.doc) > NUM_GAMES
    /\ call.pre.mtime < now
    /\ cStats[1] # <<>>
    /\ cStats[1][1].GAME_DATE > call.pre.doc[1].GAME_DATE

(***************************************************************************)
(* Writing a cache file, one write at a time: save_cached_logs (phase5)    *)
(* and safe_cache_save (phase6).  json.dump emits the document in pieces:  *)
(* the opening, one piece per record (and the "updated" stamp in phase5),  *)
(* the closing.  A file that holds only some of the pieces does not parse. *)
(***************************************************************************)
MaxSaveDays == 3        \* the frames saved hold games of days 1..MaxSaveDays

SaveScripts == {"phase5", "phase6"}

\* the non-empty frames, newest first, of games on some of the days
SaveFrames ==
    {SortNewestFirst(ParseDates(SeasonLog(lo, hi, {}, "oldest_first"))) :
        lo \in 1..MaxSaveDays, hi \in 1..MaxSaveDays} \ {<<>>}

\* the document a save writes
DocOf(script, df) ==
    IF script = "phase5" THEN save_cached_logs(df, 0).doc ELSE Records6(df)

\* the pieces json.dump emits for it
Pieces(script, df) == IF script = "phase5" THEN Len(df) + 3 ELSE Len(df) + 2

\* a file into which the first k pieces of the document of df were written
Written(script, df, k) ==
    IF k = Pieces(script, df) THEN Json(0, DocOf(script, df))
    ELSE [kind |-> "torn", mtime |-> 0, pieces |-> k]

\* the file json.dump writes into: the cache file itself, opened with "w"
TargetInPlace(script) == "path"

\* ... phase5: open(cache_path(pid), "w"); phase6: a NamedTemporaryFile in
\* CACHE_DIR that os.replace moves onto the cache file afterwards
Target(script) == IF script = "phase6" THEN "tmp" ELSE "path"

SaveInit ==
    /\ ScanIdle
    /\ LoadIdle
    /\ CacheIdle
    /\ RetryIdle
    /\ MainIdle
    /\ PickIdle
    /\ ThrIdle
    /\ TmIdle
    /\ ParlayIdle
    /\ NameIdle
    /\ PredIdle
    /\ sScript \in SaveScripts
    /\ sPath = Absent
    /\ sTmp = Absent
    /\ sPc = "idle"
    /\ sDf = <<>>
    /\ sPrev = Absent
    /\ sRead = [kind |-> "none"]

\* the save opens the file it writes into (which empties it)
SaveOpen ==
    /\ sScript \in SaveScripts
    /\ sPc = "idle"
    /\ \E df \in SaveFrames :
          /\ sDf' = df
          /\ sPrev' = sPath
          /\ IF Target(sScript) = "tmp"
             THEN sTmp' = Written(sScript, df, 0) /\ sPath' = sPath
             ELSE sPath' = Written(sScript, df, 0) /\ sTmp' = sTmp
    /\ sPc' = "dump"
    /\ UNCHANGED <<sScript, sRead, scanVars, loadVars, cacheVars, retryVars, mainVars, pickVars, thrVars, tmVars, parlayVars, nameVars, predVars>>

\* json.dump writes the next piece
SaveDump ==
    /\ sPc = "dump"
    /\ LET file == IF Target(sScript) = "tmp" THEN sTmp ELSE sPath
       IN  /\ file.kind = "torn"
           /\ IF Target(sScript) = "tmp"
              THEN sTmp' = Written(sScript, sDf, file.pieces + 1) /\ sPath' = sPath
              ELSE sPath' = Written(sScript, sDf, file.pieces + 1) /\ sTmp' = sTmp
    /\ UNCHANGED <<sScript, sPc, sDf, sPrev, sRead, scanVars, loadVars, cacheVars, retryVars, mainVars, pickVars, thrVars, tmVars, parlayVars, nameVars, predVars>>

\* the with-block closes the file
SaveClose ==
    /\ sPc = "dump"
    /\ (IF Target(sScript) = "tmp" THEN sTmp ELSE sPath).kind = "json"
    /\ sPc' = IF sScript = "phase6" THEN "replace" ELSE "idle"
    /\ UNCHANGED <<sScript, sPath, sTmp, sDf, sPrev, sRead, scanVars, loadVars, cacheVars, retryVars, mainVars, pickVars, thrVars, tmVars, parlayVars, nameVars, predVars>>

\* phase6: os.replace(temp, path)
SaveReplace ==
    /\ sPc = "replace"
    /\ sPath' = (IF Target(sScript) = "tmp" THEN sTmp ELSE sPath)
    /\ sTmp' = Absent
    /\ sPc' = "idle"
    /\ UNCHANGED <<sScript, sDf, sPrev, sRead, scanVars, loadVars, cacheVars, retryVars, mainVars, pickVars, thrVars, tmVars, parlayVars, nameVars, predVars>>

\* the process is stopped in the middle of a save; the files stay as they are
SaveInterrupted ==
    /\ sPc \in {"dump", "replace"}
    /\ sPc' = "idle"
    /\ UNCHANGED <<sScript, sPath, sTmp, sDf, sPrev, sRead, scanVars, loadVars, cacheVars, retryVars, mainVars, pickVars, thrVars, tmVars, parlayVars, nameVars, predVars>>

\* the cache file is loaded (by the next run, or by a reader between two
\* steps of a save): phase5 load_cached_logs, phase6 safe_cache_load
SaveRead ==
    /\ sScript \in SaveScripts
    /\ IF sScript = "phase5"
       THEN /\ sRead' = [kind |-> load_cached_logs(sPath, 0).kind,
                         rows |-> load_cached_logs(sPath, 0).rows]
            /\ sPath' = sPath
       ELSE /\ sRead' = [kind |-> safe_cache_load(sPath).kind,
                         rows |-> safe_cache_load(sPath).rows]
            /\ sPath' = IF safe_cache_load(sPath).removed THEN Absent ELSE sPath
    /\ UNCHANGED <<sScript, sTmp, sPc, sDf, sPrev, scanVars, loadVars, cacheVars, retryVars, mainVars, pickVars, thrVars, tmVars, parlayVars, nameVars, predVars>>

SaveNext ==
    SaveOpen \/ SaveDump \/ SaveClose \/ SaveReplace \/ SaveInterrupted \/ SaveRead

SpecSave == SaveInit /\ [][SaveNext]_vars

(***************************************************************************)
(* Claims about the writes (checked under SpecSave)                        *)
(***************************************************************************)
\* the file holds nothing but a complete document, or is absent
ClaimWhole(file) == file.kind \in {"absent", "json"}

\* C9: at every step of a phase6 save, interrupted or not, and whenever a
\* reader loads the file in between, the player's cache file is absent or
\* holds the complete previous content, or holds the complete new content;
\* no load finds a partial write.
C9_SafeSaveAtomic ==
    sScript = "phase6" =>
        /\ ClaimWhole(sPath)
        /\ ClaimWhole(sPrev)
        /\ sPath = sPrev \/ (sPath.kind = "json" /\ sPath.doc = Records6(sDf))
        /\ sRead.kind \in {"none", "None", "frame"}
        /\ sRead.kind = "frame" =>
              \E df \in SaveFrames : sRead.rows = df

\* a reader got the previous frame while the temporary file was half written
C9_Witness ==
    /\ sScript = "phase6"
    /\ sPc = "dump"
    /\ sTmp.kind = "torn"
    /\ sTmp.pieces = 1
    /\ sPath.kind = "json"
    /\ sRead.kind = "frame"
    /\ Records6(sRead.rows) = sPath.doc
    /\ sPath.doc # Records6(sDf)

\* C10: a phase5 save that was interrupted leaves the complete previous entry
\* or the complete new one, and a later load for get_player_logs does not
\* fail.
C10_Phase5SaveAtomic ==
    (sScript = "phase5" /\ sPc = "idle") =>
        /\ ClaimWhole(sPath)
        /\ sPath = sPrev \/ (sPath.kind = "json" /\ sPath.doc = DocOf("phase5", sDf))
        /\ sRead.kind # "raise"


(***************************************************************************)
(* SpecRetry: the retry loop of get_last_n_games (nba_trends_final,        *)
(* nba_trends_parlays_final), one request or sleep at a time, over several *)
(* calls that miss the cache for a player found in the player list         *)
(***************************************************************************)
MaxCalls == 3           \* calls followed

RetryScripts == {"final", "parlays"}

\* time.sleep(1.5 * (attempt + 1)) in final, time.sleep(1.0 * (attempt + 1))
\* in parlays, in half seconds
sleep_constant(script, a) == IF script = "final" THEN 3 ELSE 2

sleep_after(script, a) == (IF script = "final" THEN 3 ELSE 2) * (a + 1)

\* range(3) has a next value
InRange(a) == a + 1 < MaxAttempts

RetryInit ==
    /\ ScanIdle
    /\ LoadIdle
    /\ CacheIdle
    /\ SaveIdle
    /\ MainIdle
    /\ PickIdle
    /\ ThrIdle
    /\ TmIdle
    /\ ParlayIdle
    /\ NameIdle
    /\ PredIdle
    /\ rScript \in RetryScripts
    /\ rPc = "idle"
    /\ attempt = 0
    /\ rTried = 0
    /\ rRequests = 0
    /\ rSlept = <<>>
    /\ rResult = "none"
    /\ rCalls = 0
    /\ rPrev = [tried |-> 0, result |-> "none"]

\* the call reaches "for attempt in range(3)"
RetryBegin ==
    /\ rScript \in RetryScripts
    /\ rPc \in {"idle", "returned"}
    /\ rCalls < MaxCalls
    /\ rPrev' = [tried |-> rTried, result |-> rResult]
    /\ attempt' = 0
    /\ rTried' = 0
    /\ rRequests' = 0
    /\ rSlept' = <<>>
    /\ rResult' = "none"
    /\ rPc' = "request"
    /\ UNCHANGED <<rScript, rCalls, scanVars, loadVars, cacheVars, saveVars, mainVars, pickVars, thrVars, tmVars, parlayVars, nameVars, predVars>>

\* the season request returns; parlays asks for the all-time log as well
\* when the season log is short; save_cache; return logs.head(num_games)
RetryRequestReturns ==
    /\ rPc = "request"
    /\ \E short \in BOOLEAN :
          /\ short => rScript = "parlays"
          /\ rRequests' = rRequests + 1 + (IF short THEN 1 ELSE 0)
    /\ rTried' = rTried + 1
    /\ rResult' = "fetched"
    /\ rPc' = "returned"
    /\ rCalls' = rCalls + 1
    /\ UNCHANGED <<rScript, attempt, rSlept, rPrev, scanVars, loadVars, cacheVars, saveVars, mainVars, pickVars, thrVars, tmVars, parlayVars, nameVars, predVars>>

\* the season request raises: the except clause runs
RetryRequestRaises ==
    /\ rPc = "request"
    /\ rRequests' = rRequests + 1
    /\ rTried' = rTried + 1
    /\ rPc' = "sleep"
    /\ UNCHANGED <<rScript, attempt, rSlept, rResult, rCalls, rPrev, scanVars, loadVars, cacheVars, saveVars, mainVars, pickVars, thrVars, tmVars, parlayVars, nameVars, predVars>>

\* time.sleep, then the next value of range(3), or the loop ends and
\* load_cache(player_name) is returned
RetrySleep ==
    /\ rPc = "sleep"
    /\ rSlept' = Append(rSlept, sleep_after(rScript, attempt))
    /\ IF InRange(attempt)
       THEN /\ attempt' = attempt + 1
            /\ rPc' = "request"
            /\ UNCHANGED <<rResult, rCalls>>
       ELSE /\ attempt' = attempt
            /\ rPc' = "returned"
            /\ rResult' = "exhausted"
            /\ rCalls' = rCalls + 1
    /\ UNCHANGED <<rScript, rTried, rRequests, rPrev, scanVars, loadVars, cacheVars, saveVars, mainVars, pickVars, thrVars, tmVars, parlayVars, nameVars, predVars>>

RetryNext == RetryBegin \/ RetryRequestReturns \/ RetryRequestRaises \/ RetrySleep

SpecRetry == RetryInit /\ [][RetryNext]_vars

\* a request ends (it returns or raises) and a sleep ends
SpecRetryLive ==
    /\ SpecRetry
    /\ WF_vars(RetryRequestReturns \/ RetryRequestRaises)
    /\ WF_vars(RetrySleep)

(***************************************************************************)
(* Claims about the retry loop (checked under SpecRetryLive)               *)
(***************************************************************************)
\* the delay per failed attempt: 1.5 s in final, 1.0 s in parlays
ClaimUnit == IF rScript = "final" THEN 3 ELSE 2

ClaimRetryShape ==
    rScript \in {"final", "parlays"} =>
        /\ rTried <= 3
        /\ rResult = "fetched" => (rPc = "returned" /\ Len(rSlept) = rTried - 1)
        /\ rResult = "exhausted" => (rPc = "returned" /\ rTried = 3 /\ Len(rSlept) = 3)
        /\ rPc = "request" => (Len(rSlept) = rTried /\ rTried < 3)
        /\ rPc = "sleep" => Len(rSlept) = rTried - 1
        /\ \A k \in DOMAIN rSlept : rSlept[k] = k * ClaimUnit

\* C12: a call of get_last_n_games that misses makes at most 3 attempts,
\* makes none after the first that succeeds, has waited k times the unit
\* delay after its k-th failed attempt whatever the calls before it did, and
\* returns.
C12_RetriesBoundedLinearLocal ==
    /\ []ClaimRetryShape
    /\ (rPc = "request") ~> (rPc = "returned")

\* the call after one that used up its attempts succeeds at its second
\* attempt, having waited one unit
C12_Witness ==
    /\ rPrev.result = "exhausted"
    /\ rPrev.tried = 3
    /\ rResult = "fetched"
    /\ rTried = 2
    /\ rSlept = <<ClaimUnit>>

(***************************************************************************)
(* SpecMain: main's loop over the players of the pool (phase3, phase4,     *)
(* phase5, phase6): the window is loaded, the caller's checks run, the     *)
(* categories are scanned                                                  *)
(***************************************************************************)
MaxPool == 2            \* players in the pool

MIN_AVG_MINUTES == 15

MainScripts == {"phase3", "phase4", "phase5", "phase6"}

\* a row of a PlayerGameLog frame that lacks the columns `lacking`
SourceRow(day, kind, lacking) ==
    [col \in ({"GAME_DATE", "MIN"} \cup SourceColumns) \ lacking |->
        IF col = "GAME_DATE" THEN day
        ELSE IF col = "MIN" THEN (IF kind = "low" THEN 10 ELSE 30)
        ELSE SourceValue(kind, col)]

\* this season's log of a player: n games, newest first
SeasonRows(n, kind, lacking) == [i \in 1..n |-> SourceRow(100 - i, kind, lacking)]

\* last season's log: NUM_GAMES games with every column
PriorRows == [i \in 1..NUM_GAMES |-> SourceRow(0 - i, "mid", {})]

Lackings == {{}, {"FG3M"}, SourceColumns}

\* what the source holds for a player, which season requests raise, and
\* whether phase6 has a cache file of last season's games; of the inputs
\* that make no difference to a call (the columns of an empty log, a failure
\* of a season that is not requested) one is kept
PlayerInputs ==
    {p \in [n : {0, 5, NUM_GAMES}, kind : {"high", "low"}, lacking : Lackings,
            failed : {{}, {2}, {1, 2}}, cached : BOOLEAN] :
        /\ p.kind = "low" => p.lacking = {}
        /\ p.n = 0 => (p.kind = "high" /\ p.lacking = {} /\ p.failed # {2})
        /\ p.n = NUM_GAMES => p.failed # {2}
        /\ p.cached => (p.n = 0 /\ p.failed = {1, 2})}

SourceOf(p) == << SeasonRows(p.n, p.kind, p.lacking), PriorRows >>

CacheOf(p) ==
    IF p.cached THEN Json(0, Records6(SortNewestFirst(ParseDates(PriorRows)))) ELSE Absent

\* needed = [...]; a column of it the frame lacks is added with 0;
\* return df_recent[needed]
needed == {"GAME_DATE", "MIN", "PTS", "REB", "AST", "3PM", "STL", "BLK"}

get_player_logs3(src, failed) ==
    LET df_recent == fetch_player_logs(src, failed).rows
    IN  [i \in 1..Len(df_recent) |->
            [c \in needed |-> IF c \in DOMAIN df_recent[i] THEN df_recent[i][c] ELSE 0]]

\* the loop over the categories: a KeyError ends it
CategoryIndex(cat) == CHOOSE i \in DOMAIN CATEGORY_ORDER : CATEGORY_ORDER[i] = cat

ScanAll(script, df) ==
    LET bad  == {i \in DOMAIN CATEGORY_ORDER :
                    Scanner(script, df, CATEGORY_ORDER[i]).kind = "KeyError"}
        stop == IF bad = {} THEN Len(CATEGORY_ORDER)
                ELSE CHOOSE i \in bad : \A j \in bad : i <= j
    IN  [status |-> IF bad = {} THEN "scanned" ELSE "KeyError",
         window |-> df,
         picks  |-> [cat \in SeqToSet(CATEGORY_ORDER) |->
                        IF CategoryIndex(cat) <= stop THEN Scanner(script, df, cat)
                        ELSE Pending]]

NoPicks(status, df) ==
    [status |-> status, window |-> df,
     picks |-> [cat \in SeqToSet(CATEGORY_ORDER) |-> Pending]]

\* phase3 main: logs = get_player_logs(...); "if logs.empty: continue";
\* evaluate_player: the minutes floor, then best_line_for_category
HandlePlayer3(p) ==
    LET logs == get_player_logs3(SourceOf(p), p.failed)
    IN  IF logs = <<>> THEN NoPicks("skipped", logs)
        ELSE IF SumMinutes(logs) < MIN_AVG_MINUTES * Len(logs) THEN NoPicks("scanned", logs)
        ELSE ScanAll("phase3", logs)

\* phase4 main: evaluate_player_across_categories, no minutes floor
HandlePlayer4(p) ==
    LET logs == get_player_logs3(SourceOf(p), p.failed)
    IN  IF logs = <<>> THEN NoPicks("skipped", logs) ELSE ScanAll("phase4", logs)

\* phase5 main: p["logs"] of get_player_logs; "if logs.empty: continue"
HandlePlayer5(p) ==
    LET logs == get_player_logs(Absent, 0, SourceOf(p), p.failed).ret
    IN  IF logs = <<>> THEN NoPicks("skipped", logs) ELSE ScanAll("phase5", logs)

\* phase6 main: "if df is None or len(df) < NUM_GAMES: continue"
TooShort(df) == Len(df) < NUM_GAMES

\* phase6 main: df = get_logs(pid), which may raise
HandlePlayer6(p) ==
    LET o == get_logs(CacheOf(p), 0, SourceOf(p), p.failed)
    IN  IF o.kind = "raised" THEN NoPicks("raised", <<>>)
        ELSE IF o.path = "nothing" \/ TooShort(o.ret) THEN NoPicks("skipped", o.ret)
        ELSE ScanAll("phase6", o.ret)

HandlePlayer(script, p) ==
    CASE script = "phase3" -> HandlePlayer3(p)
      [] script = "phase4" -> HandlePlayer4(p)
      [] script = "phase5" -> HandlePlayer5(p)
      [] script = "phase6" -> HandlePlayer6(p)

MainInit ==
    /\ ScanIdle
    /\ LoadIdle
    /\ CacheIdle
    /\ SaveIdle
    /\ RetryIdle
    /\ PickIdle
    /\ ThrIdle
    /\ TmIdle
    /\ ParlayIdle
    /\ NameIdle
    /\ PredIdle
    /\ mScript \in MainScripts
    /\ mPool \in [1..MaxPool -> PlayerInputs]
    /\ \A i \in 1..MaxPool : mPool[i].cached => mScript = "phase6"
    /\ mIdx = 1
    /\ mOut = <<>>
    /\ mState = "running"

\* one pass of main's loop over the players; an exception that nothing
\* catches ends the process
MainPlayer ==
    /\ mState = "running"
    /\ mIdx <= Len(mPool)
    /\ LET out == HandlePlayer(mScript, mPool[mIdx])
       IN  /\ mOut' = Append(mOut, out)
           /\ mState' = IF out.status \in {"raised", "KeyError"} THEN "crashed"
                        ELSE "running"
    /\ mIdx' = mIdx + 1
    /\ UNCHANGED <<mScript, mPool, scanVars, loadVars, cacheVars, saveVars, retryVars, pickVars, thrVars, tmVars, parlayVars, nameVars, predVars>>

\* the loop ends and the results are printed
MainReport ==
    /\ mState = "running"
    /\ mIdx > Len(mPool)
    /\ mState' = "done"
    /\ UNCHANGED <<mScript, mPool, mIdx, mOut, scanVars, loadVars, cacheVars, saveVars, retryVars, pickVars, thrVars, tmVars, parlayVars, nameVars, predVars>>

MainNext == MainPlayer \/ MainReport

SpecMain == MainInit /\ [][MainNext]_vars

(***************************************************************************)
(* Claims about the callers (checked under SpecMain)                       *)
(***************************************************************************)
ClaimHasPick(out) == \E cat \in SeqToSet(CATEGORY_ORDER) : out.picks[cat].kind = "found"

\* C16: in phase3, phase5 and phase6 a threshold result is produced for a
\* player only when the player's window holds the full lookback count of 10
\* games; a player with fewer qualifying games yields no result.
C16_ResultsOnlyOnFullWindow ==
    mScript \in {"phase3", "phase5", "phase6"} =>
        \A i \in DOMAIN mOut : ClaimHasPick(mOut[i]) => Len(mOut[i].window) = 10

\* C18: in phase3, phase4 and phase5, when the season log of a player lacks
\* stat fields, the window holds every stat column, the games of that log
\* carry 0 in the columns it lacks (FG3M: in "3PM"), and every category is
\* scanned without an error.
C18_MissingStatIsZero ==
    mScript \in {"phase3", "phase4", "phase5"} =>
        /\ mState # "crashed"
        /\ \A i \in DOMAIN mOut :
              LET p == mPool[i]
                  w == mOut[i].window
              IN  /\ mOut[i].status \in {"skipped", "scanned"}
                  /\ \A k \in DOMAIN w :
                        /\ {"PTS", "REB", "AST", "3PM", "STL", "BLK"} \subseteq DOMAIN w[k]
                        /\ w[k].GAME_DATE > 0 =>
                              \A c \in p.lacking :
                                 w[k][IF c = "FG3M" THEN "3PM" ELSE c] = 0
                  /\ (mOut[i].status = "scanned" /\ (mScript # "phase3" \/ p.kind # "low")) =>
                        \A cat \in SeqToSet(CATEGORY_ORDER) :
                           mOut[i].picks[cat].kind \in {"None", "found"}

\* phase5 has scanned a window of 5 games of a log without FG3M and 5 games
\* of last season's complete log, and phase5's main is done
C18_Witness ==
    /\ mScript = "phase5"
    /\ mState = "done"
    /\ mPool[1].lacking = {"FG3M"}
    /\ mPool[1].n = 5
    /\ Len(mOut[1].window) = 10
    /\ mOut[1].status = "scanned"
    /\ mOut[1].window[1]["3PM"] = 0
    /\ mOut[1].window[10]["3PM"] = 2
    /\ mOut[1].picks["3PM"] = Miss(1)
    /\ mOut[1].picks["PTS"] = Miss(1)
    /\ mPool[2].lacking = SourceColumns
    /\ mPool[2].n = 10
    /\ mOut[2].window[1]["PTS"] = 0
    /\ mOut[2].picks["PTS"] = Miss(1)

\* C19: in phase6 a failure of the stats source while one player's logs are
\* fetched does not end the process: the player yields no window (or the
\* cached one) and main goes on to the remaining players.
C19_FetchFailureNotEscalated ==
    mScript = "phase6" =>
        \A i \in DOMAIN mOut :
            /\ mOut[i].status # "raised"
            /\ (mPool[i].failed = {1, 2} /\ i = Len(mOut)) => mState # "crashed"

\* C27: in phase6, for every player whose window of get_logs holds
\* NUM_GAMES games, main evaluates best_line for each of the six categories
\* and gets a result or None for each, without aborting.
C27_Phase6ScansSixCategories ==
    mScript = "phase6" =>
        \A i \in DOMAIN mOut :
            (mOut[i].status # "raised" /\ Len(mOut[i].window) = NUM_GAMES) =>
                /\ mOut[i].status = "scanned"
                /\ \A cat \in SeqToSet(CATEGORY_ORDER) :
                      mOut[i].picks[cat].kind \in {"None", "found"}

(***************************************************************************)
(* SpecPick: pick_highest_alt_or_best_standard (nba_trends_parlays_final)  *)
(* on the lookup and the set of markets fetch_fanduel_player_props_today   *)
(* returns.  Points are counted in half points (49 is the line 24.5),      *)
(* decimal odds in hundredths.                                             *)
(***************************************************************************)
\* MARKET_FOR_STAT.get(stat_label, (None, None))
stat_to_markets(stat_label) ==
    CASE stat_label = "points"   -> <<"player_points", "player_points_alt">>
      [] stat_label = "rebounds" -> <<"player_rebounds", "player_rebounds_alt">>
      [] stat_label = "assists"  -> <<"player_assists", "player_assists_alt">>
      [] stat_label = "threes"   -> <<"player_three_points", "player_three_points_alt">>
      [] OTHER -> <<"None", "None">>

\* accents stripped, lower case
normalize_name(n) ==
    CASE n = "Luka Doncic" -> "luka doncic"
      [] n = "LeBron James" -> "lebron james"
      [] OTHER -> n

\* 1 + a/100 for a > 0, 1 + 100/|a| otherwise
american_to_decimal(a) == IF a > 0 THEN 100 + a ELSE 100 + (10000 \div (0 - a))

\* float(threshold) - 0.5
threshold_to_over_point(threshold) == 2 * threshold - 1

\* one entry of the lookup: key (player, market, point, "over"), value
\* {american, decimal, book}
Line(name, market, point, price) ==
    [player |-> normalize_name(name), market |-> market, point |-> point,
     american |-> price, decimal |-> american_to_decimal(price), book |-> "FanDuel"]

\* the over lines the bookmaker may list: alternates at 15, 20 and 24.5
\* points, standard lines at 19.5 and 25.5, an alternate of another player
\* and an alternate rebounds line
OfferedLines ==
    { Line("Luka Doncic", "player_points_alt", 30, 0 - 400),
      Line("Luka Doncic", "player_points_alt", 40, 0 - 125),
      Line("Luka Doncic", "player_points_alt", 49, 150),
      Line("LeBron James", "player_points_alt", 60, 400),
      Line("Luka Doncic", "player_points", 39, 0 - 200),
      Line("Luka Doncic", "player_points", 51, 120),
      Line("Luka Doncic", "player_rebounds_alt", 16, 0 - 250) }

Abs(x) == IF x < 0 THEN 0 - x ELSE x

\* alts.sort(key=lambda x: x[0], reverse=True); alts[0]
HighestPoint(lines) == CHOOSE l \in lines : \A k \in lines : k.point <= l.point

\* of two lines equally near the target, the one above it
NearestAbove(lines, target) ==
    CHOOSE l \in lines : \A k \in lines :
        \/ Abs(l.point - target) < Abs(k.point - target)
        \/ /\ Abs(l.point - target) = Abs(k.point - target)
           /\ (l.point > target \/ k.point <= target)

\* stds.sort(key=(abs(pt - target), 0 if pt <= target else 1)); stds[0]
NearestPoint(lines, target) ==
    CHOOSE l \in lines : \A k \in lines :
        \/ Abs(l.point - target) < Abs(k.point - target)
        \/ /\ Abs(l.point - target) = Abs(k.point - target)
           /\ (l.point <= target \/ k.point > target)

\* int(pt) of a point given in half points, again in half points
IntPoint(pt) == 2 * (pt \div 2)

Chosen(l, point, market) ==
    [kind |-> "line", point |-> point, american |-> l.american, decimal |-> l.decimal,
     book |-> l.book, used_market |-> market]

pick_highest_alt_or_best_standard(player, stat_label, threshold, lookup, returned) ==
    LET pkey    == normalize_name(player)
        std_key == stat_to_markets(stat_label)[1]
        alt_key == stat_to_markets(stat_label)[2]
        alts    == {l \in lookup : l.player = pkey /\ l.market = alt_key}
        stds    == {l \in lookup : l.player = pkey /\ l.market = std_key}
    IN  IF alt_key # "None" /\ alt_key \in returned /\ alts # {}
        THEN Chosen(HighestPoint(alts), IntPoint(HighestPoint(alts).point), alt_key)
        ELSE IF std_key # "None" /\ std_key \in returned /\ stds # {}
        THEN LET l == NearestPoint(stds, threshold_to_over_point(threshold))
             IN  Chosen(l, l.point, std_key)
        ELSE [kind |-> "None"]

PickInit ==
    /\ ScanIdle
    /\ LoadIdle
    /\ CacheIdle
    /\ SaveIdle
    /\ RetryIdle
    /\ MainIdle
    /\ ThrIdle
    /\ TmIdle
    /\ ParlayIdle
    /\ NameIdle
    /\ PredIdle
    /\ odds_lookup \in SUBSET OfferedLines
    /\ returned_markets \in SUBSET {"player_points", "player_points_alt", "player_rebounds_alt"}
    /\ \A l \in odds_lookup : l.market \in returned_markets
    /\ pickArgs \in [player : {"Luka Doncic", "luka doncic"},
                     stat_label : {"points", "rebounds"},
                     threshold : {20, 23, 26}]
    /\ best = <<>>
    /\ pickPc = "called"

\* main: best_line = pick_highest_alt_or_best_standard(...)
Pick ==
    /\ pickPc = "called"
    /\ best' = pick_highest_alt_or_best_standard(pickArgs.player, pickArgs.stat_label,
                  pickArgs.threshold, odds_lookup, returned_markets)
    /\ pickPc' = "done"
    /\ UNCHANGED <<odds_lookup, returned_markets, pickArgs, scanVars, loadVars, cacheVars, saveVars, retryVars, mainVars, thrVars, tmVars, parlayVars, nameVars, predVars>>

PickNext == Pick

SpecPick == PickInit /\ [][PickNext]_vars

(***************************************************************************)
(* Claims about the choice of a line (checked under SpecPick)              *)
(***************************************************************************)
\* the player's alternate over lines of the stat in the lookup
ClaimAlternates ==
    {l \in odds_lookup :
        /\ l.player = "luka doncic"
        /\ l.market = (IF pickArgs.stat_label = "points" THEN "player_points_alt"
                       ELSE "player_rebounds_alt")}

\* C20: when the alternate market of the stat was returned and the lookup
\* holds an alternate over line of the player, the result is the alternate
\* line of the greatest point among them, with its point and its own price,
\* whatever the threshold and the standard lines.
C20_HighestAlternateLine ==
    (pickPc = "done" /\ ClaimAlternates # {}) =>
        /\ best.kind = "line"
        /\ best.used_market \in {"player_points_alt", "player_rebounds_alt"}
        /\ \A l \in ClaimAlternates : l.point <= best.point
        /\ \E l \in ClaimAlternates :
              l.point = best.point /\ l.american = best.american /\ l.decimal = best.decimal

(***************************************************************************)
(* SpecThresholds: calculate_auto_thresholds of nba_trends_final,          *)
(* nba_trends_auto_threshold (minimum rate 0.8) and nba_trends_parlays_    *)
(* final (min_rate 0.9 for the leg pool, 0.7 for the debug list).  A rate  *)
(* is a pair <<numerator, denominator>>; NaN is a missing value.           *)
(***************************************************************************)
MaxWindow == 10

NaN == 0 - 1

AutoStats == <<"PTS", "REB", "AST", "FG3M">>

ThrScripts == {"final", "auto_threshold", "parlays"}

\* 0.8 in the two older scripts; CONSISTENCY_THRESHOLD and DEBUG_MIN_RATE in
\* the parlays script
MinRates(script) == IF script = "parlays" THEN {<<9, 10>>, <<7, 10>>} ELSE {<<4, 5>>}

\* the kinds of game a window is made of; the last one lacks the assists
ThrGames ==
    << [PTS |-> 25, REB |-> 8, AST |-> 5, FG3M |-> 2],
       [PTS |-> 12, REB |-> 2, AST |-> 1, FG3M |-> 1],
       [PTS |-> 3, REB |-> 1, AST |-> 0, FG3M |-> 0],
       [PTS |-> 0, REB |-> 0, AST |-> NaN, FG3M |-> 0] >>

\* df[stat].dropna()
DropNa(df, stat) == SelectSeq([i \in 1..Len(df) |-> df[i][stat]], LAMBDA v : v # NaN)

RECURSIVE SortDescending(_)
\* sort_values(ascending=False).tolist()
SortDescending(vals) ==
    IF vals = <<>> THEN <<>>
    ELSE LET i == CHOOSE i \in 1..Len(vals) : \A j \in 1..Len(vals) : vals[j] <= vals[i]
         IN  <<vals[i]>> \o SortDescending(SubSeq(vals, 1, i - 1) \o SubSeq(vals, i + 1, Len(vals)))

\* int(min_rate * len(values)) - 1, raised to 0
threshold_idx(rate, n) ==
    IF (rate[1] * n) \div rate[2] - 1 < 0 THEN 0 ELSE (rate[1] * n) \div rate[2] - 1

\* int((df[stat] >= threshold).sum()): a missing value is no hit
HitsAtLeast(df, stat, threshold) ==
    Cardinality({i \in 1..Len(df) : df[i][stat] # NaN /\ df[i][stat] >= threshold})

\* rate < min_rate never stops an entry
RateAlways(hits, total, rate) == TRUE

\* rate >= min_rate, with rate = hits / total
RateAtLeast(hits, total, rate) == hits * rate[2] >= rate[1] * total

\* the parlays script skips the trivial 1+ of REB, AST and FG3M
Trivial(script, stat, threshold) ==
    script = "parlays" /\ stat \in {"REB", "AST", "FG3M"} /\ threshold <= 1

StatLabel(stat) ==
    CASE stat = "PTS" -> "points"
      [] stat = "REB" -> "rebounds"
      [] stat = "AST" -> "assists"
      [] stat = "FG3M" -> "threes"

\* one turn of the loop over the stats: the entry appended, or none
ThresholdEntry(script, df, columns, stat, rate) ==
    IF stat \notin columns THEN <<>>
    ELSE LET values == SortDescending(DropNa(df, stat))
         IN  IF values = <<>> THEN <<>>
             ELSE LET threshold == values[threshold_idx(rate, Len(values)) + 1]
                      hits      == HitsAtLeast(df, stat, threshold)
                  IN  IF RateAtLeast(hits, Len(df), rate) /\ threshold > 0
                         /\ ~Trivial(script, stat, threshold)
                      THEN << [Stat |-> StatLabel(stat), Threshold |-> threshold,
                               Hits |-> hits, Total |-> Len(df)] >>
                      ELSE <<>>

calculate_auto_thresholds(script, df, columns, rate) ==
    IF df = <<>> THEN <<>>
    ELSE ThresholdEntry(script, df, columns, AutoStats[1], rate)
         \o ThresholdEntry(script, df, columns, AutoStats[2], rate)
         \o ThresholdEntry(script, df, columns, AutoStats[3], rate)
         \o ThresholdEntry(script, df, columns, AutoStats[4], rate)

\* the windows: some games of each kind, MaxWindow at most
ThrWindows ==
    { Repeat(ThrGames[1], c[1]) \o Repeat(ThrGames[2], c[2])
        \o Repeat(ThrGames[3], c[3]) \o Repeat(ThrGames[4], c[4]) :
      c \in {d \in [1..4 -> 0..MaxWindow] : d[1] + d[2] + d[3] + d[4] <= MaxWindow} }

ThrInit ==
    /\ ScanIdle
    /\ LoadIdle
    /\ CacheIdle
    /\ SaveIdle
    /\ RetryIdle
    /\ MainIdle
    /\ PickIdle
    /\ TmIdle
    /\ ParlayIdle
    /\ NameIdle
    /\ PredIdle
    /\ thrScript \in ThrScripts
    /\ min_rate \in MinRates(thrScript)
    /\ thrDf \in ThrWindows
    /\ thrColumns \in {{"PTS", "REB", "AST", "FG3M"}, {"PTS", "REB", "AST"}}
    /\ thrResults = <<>>
    /\ thrPc = "called"

\* main: trends = calculate_auto_thresholds(logs)
CalculateThresholds ==
    /\ thrPc = "called"
    /\ thrResults' = calculate_auto_thresholds(thrScript, thrDf, thrColumns, min_rate)
    /\ thrPc' = "done"
    /\ UNCHANGED <<thrScript, min_rate, thrDf, thrColumns, scanVars, loadVars, cacheVars, saveVars, retryVars, mainVars, pickVars, tmVars, parlayVars, nameVars, predVars>>

ThrNext == CalculateThresholds

SpecThresholds == ThrInit /\ [][ThrNext]_vars

(***************************************************************************)
(* Claims about calculate_auto_thresholds (checked under SpecThresholds)   *)
(***************************************************************************)
\* the stat column an entry's label stands for
ClaimStatOf(label) == CHOOSE stat \in {"PTS", "REB", "AST", "FG3M"} : StatLabel(stat) = label

\* games of the window whose value of the stat is present and at least t
ClaimHits(stat, t) ==
    Cardinality({i \in 1..Len(thrDf) : thrDf[i][stat] # NaN /\ thrDf[i][stat] >= t})

\* the rate of threshold t over the whole window reaches the minimum rate
ClaimMet(stat, t) == ClaimHits(stat, t) * min_rate[2] >= min_rate[1] * Len(thrDf)

\* C21: every entry returned has Threshold > 0 and a hit rate (games of the
\* window with stat >= Threshold over the games of the window) of at least
\* the minimum rate; a stat has at most one entry; the parlays version has
\* no entry of rebounds, assists or threes with Threshold <= 1.
C21_EntriesMeetRate ==
    thrPc = "done" =>
        /\ \A i \in 1..Len(thrResults) :
             /\ thrResults[i].Threshold > 0
             /\ ClaimMet(ClaimStatOf(thrResults[i].Stat), thrResults[i].Threshold)
             /\ (thrScript = "parlays" /\ thrResults[i].Stat # "points")
                    => thrResults[i].Threshold > 1
        /\ \A i, j \in 1..Len(thrResults) :
             thrResults[i].Stat = thrResults[j].Stat => i = j

\* a window of nine games whose entry rests on eight hits of nine
C21_Witness ==
    /\ thrPc = "done"
    /\ thrScript = "parlays"
    /\ Len(thrDf) = 9
    /\ \E i \in 1..Len(thrResults) :
         /\ thrResults[i].Stat = "rebounds"
         /\ thrResults[i].Threshold = 2
         /\ thrResults[i].Hits = 8

\* the window has every column and no missing value
ClaimComplete ==
    /\ thrColumns = {"PTS", "REB", "AST", "FG3M"}
    /\ \A i \in 1..Len(thrDf) : \A stat \in thrColumns : thrDf[i][stat] # NaN

\* the positive thresholds of the stat that are met and not skipped as trivial
ClaimGood(stat) ==
    {t \in 1..30 : ClaimMet(stat, t) /\ ~(thrScript = "parlays" /\ stat # "PTS" /\ t <= 1)}

\* C24: on a non-empty window without missing values, every stat that has
\* a positive, non-trivial integer threshold met at the minimum rate has
\* an entry, and its Threshold is the largest such integer.
C24_LargestThreshold ==
    (thrPc = "done" /\ thrDf # <<>> /\ ClaimComplete) =>
        \A stat \in thrColumns :
            ClaimGood(stat) # {} =>
                \E i \in 1..Len(thrResults) :
                    /\ thrResults[i].Stat = StatLabel(stat)
                    /\ thrResults[i].Threshold \in ClaimGood(stat)
                    /\ \A t \in ClaimGood(stat) : t <= thrResults[i].Threshold

(***************************************************************************)
(* SpecMatches: tennis_stats_predictor.get_todays_matches, one step per    *)
(* source consulted (and per endpoint of the SGO API).                     *)
(***************************************************************************)
\* endpoints = [...] of get_sgo_matches
SgoEndpoints == 3

MatchLists == { <<>>, << <<"Jannik Sinner", "Carlos Alcaraz">> >>,
                << <<"Iga Swiatek", "Coco Gauff">>, <<"Novak Djokovic", "Taylor Fritz">> >> }

\* what one request of a source can come to: an exception, a status other
\* than 200, or the matches parsed from the answer
Answers == {[kind |-> "raises"], [kind |-> "status"]} \cup {[kind |-> "matches", list |-> l] : l \in MatchLists}

\* matches parsed from an answer; a request that raised or an answer that is
\* not 200 gives none
MatchesOf(answer) == IF answer.kind = "matches" THEN answer.list ELSE <<>>

\* the first list is returned whatever it holds
YieldsAlways(matches) == TRUE

\* if matches:
Yields(matches) == matches # <<>>

\* os.environ.get(key) is set and not empty
KeySet(key) == key \in tmEnv

MatchesInit ==
    /\ ScanIdle
    /\ LoadIdle
    /\ CacheIdle
    /\ SaveIdle
    /\ RetryIdle
    /\ MainIdle
    /\ PickIdle
    /\ ThrIdle
    /\ ParlayIdle
    /\ NameIdle
    /\ PredIdle
    /\ tmEnv \in SUBSET {"SGO_API_KEY", "RAPIDAPI_KEY"}
    /\ tmPc = "SGO"
    /\ tmEndpoint = 0
    /\ tmConsulted = <<>>
    /\ tmYields = <<>>
    /\ tmRequests = <<>>
    /\ tmResult = <<>>

TmFrame == UNCHANGED <<tmEnv, scanVars, loadVars, cacheVars, saveVars, retryVars, mainVars, pickVars, thrVars, parlayVars, nameVars, predVars>>

\* session.get(...) of a source, and how it ended
Requested(source, answer) ==
    tmRequests' = Append(tmRequests, [source |-> source, ended |-> answer.kind])

\* the source yielded matches: return them, or go on to the next source
Consulted(source, matches, next) ==
    /\ tmConsulted' = Append(tmConsulted, source)
    /\ tmYields' = Append(tmYields, matches)
    /\ IF Yields(matches)
       THEN tmResult' = matches /\ tmPc' = "returned"
       ELSE tmResult' = tmResult /\ tmPc' = next

\* SGO_API_KEY is not set
SgoSkipped ==
    /\ tmPc = "SGO"
    /\ ~KeySet("SGO_API_KEY")
    /\ tmPc' = "RapidAPI"
    /\ UNCHANGED <<tmEndpoint, tmConsulted, tmYields, tmRequests, tmResult>>
    /\ TmFrame

\* get_sgo_matches(session, sgo_key) starts on its endpoints
SgoCalled ==
    /\ tmPc = "SGO"
    /\ KeySet("SGO_API_KEY")
    /\ tmPc' = "endpoints"
    /\ tmEndpoint' = 1
    /\ UNCHANGED <<tmConsulted, tmYields, tmRequests, tmResult>>
    /\ TmFrame

\* one endpoint of get_sgo_matches: its matches end the function, anything
\* else leads to the next endpoint, and to [] after the last
SgoEndpoint ==
    /\ tmPc = "endpoints"
    /\ \E answer \in Answers :
         /\ Requested("SGO", answer)
         /\ IF MatchesOf(answer) # <<>>
           THEN /\ Consulted("SGO", MatchesOf(answer), "RapidAPI")
                /\ tmEndpoint' = tmEndpoint
           ELSE IF tmEndpoint < SgoEndpoints
           THEN /\ tmEndpoint' = tmEndpoint + 1
                /\ UNCHANGED <<tmPc, tmConsulted, tmYields, tmResult>>
           ELSE /\ Consulted("SGO", <<>>, "RapidAPI")
                /\ tmEndpoint' = tmEndpoint
    /\ TmFrame

\* RAPIDAPI_KEY is not set
RapidSkipped ==
    /\ tmPc = "RapidAPI"
    /\ ~KeySet("RAPIDAPI_KEY")
    /\ tmPc' = "ESPN"
    /\ UNCHANGED <<tmEndpoint, tmConsulted, tmYields, tmRequests, tmResult>>
    /\ TmFrame

\* get_rapidapi_matches(session, rapidapi_key): [] on any exception
RapidCalled ==
    /\ tmPc = "RapidAPI"
    /\ KeySet("RAPIDAPI_KEY")
    /\ \E answer \in Answers :
         Requested("RapidAPI", answer) /\ Consulted("RapidAPI", MatchesOf(answer), "ESPN")
    /\ UNCHANGED tmEndpoint
    /\ TmFrame

\* the ESPN schedule page; after it the function returns []
EspnCalled ==
    /\ tmPc = "ESPN"
    /\ \E answer \in Answers :
         Requested("ESPN", answer) /\ Consulted("ESPN", MatchesOf(answer), "returned")
    /\ UNCHANGED tmEndpoint
    /\ TmFrame

MatchesNext ==
    \/ SgoSkipped
    \/ SgoCalled
    \/ SgoEndpoint
    \/ RapidSkipped
    \/ RapidCalled
    \/ EspnCalled

SpecMatches == MatchesInit /\ [][MatchesNext]_vars

(***************************************************************************)
(* Claims about get_todays_matches (checked under SpecMatches)             *)
(***************************************************************************)
\* the sources that may be consulted in this environment, in their order
ClaimEligible ==
    (IF "SGO_API_KEY" \in tmEnv THEN <<"SGO">> ELSE <<>>)
    \o (IF "RAPIDAPI_KEY" \in tmEnv THEN <<"RapidAPI">> ELSE <<>>)
    \o <<"ESPN">>

\* C22: the sources are consulted in the order SGO, RapidAPI, ESPN, a
\* source without its key is skipped; the result is the list of the first
\* source that yields a non-empty one and no source is consulted after it;
\* a source that yields nothing leads to the next one, and when all yield
\* nothing the result is the empty list.
C22_SourcesInOrder ==
    /\ Len(tmConsulted) <= Len(ClaimEligible)
    /\ tmConsulted = SubSeq(ClaimEligible, 1, Len(tmConsulted))
    /\ \A i \in 1..(Len(tmYields) - 1) : tmYields[i] = <<>>
    /\ tmPc = "returned" =>
          /\ tmConsulted # <<>>
          /\ tmResult = tmYields[Len(tmYields)]
          /\ tmResult = <<>> => tmConsulted = ClaimEligible
    /\ tmPc # "returned" => (tmResult = <<>> /\ \A i \in 1..Len(tmYields) : tmYields[i] = <<>>)

\* SGO yielded nothing on its three endpoints, RapidAPI has no key, and
\* the ESPN page gave the matches returned
C22_Witness ==
    /\ tmPc = "returned"
    /\ tmEnv = {"SGO_API_KEY"}
    /\ tmEndpoint = SgoEndpoints
    /\ tmConsulted = <<"SGO", "ESPN">>
    /\ Len(tmResult) = 2

\* the player's standard over lines of the stat in the lookup
ClaimStandards ==
    {l \in odds_lookup :
        /\ l.player = "luka doncic"
        /\ l.market = (IF pickArgs.stat_label = "points" THEN "player_points"
                       ELSE "player_rebounds")}

\* the distance of a line to the target point, threshold - 0.5, in half points
ClaimDistance(l) ==
    IF l.point >= 2 * pickArgs.threshold - 1
    THEN l.point - (2 * pickArgs.threshold - 1)
    ELSE (2 * pickArgs.threshold - 1) - l.point

\* C25: without an alternate line of the player and stat, the result is a
\* standard over line of the player nearest to the target threshold - 0.5,
\* with its point and price, and one at or below the target when lines on
\* both sides are equally near; without a standard line either it is None.
C25_NearestStandardLine ==
    (pickPc = "done" /\ ClaimAlternates = {}) =>
        IF ClaimStandards = {} THEN best.kind = "None"
        ELSE /\ best.kind = "line"
             /\ best.used_market = "player_points"
             /\ \E l \in ClaimStandards :
                   /\ l.point = best.point
                   /\ l.american = best.american
                   /\ l.decimal = best.decimal
                   /\ \A k \in ClaimStandards :
                         /\ ClaimDistance(l) <= ClaimDistance(k)
                         /\ (ClaimDistance(l) = ClaimDistance(k)
                               /\ k.point <= 2 * pickArgs.threshold - 1)
                                => l.point <= 2 * pickArgs.threshold - 1

\* threshold 23 has the target 22.5, as near to 19.5 as to 25.5
C25_Witness ==
    /\ pickPc = "done"
    /\ pickArgs.threshold = 23
    /\ ClaimAlternates = {}
    /\ Cardinality(ClaimStandards) = 2
    /\ best.kind = "line"
    /\ best.point = 39

(***************************************************************************)
(* SpecParlay: build_parlay_suggestions (nba_trends_parlays_final) on the  *)
(* leg pool of main.  Decimal odds and tolerances are counted in tenths,   *)
(* rates in twentieths; a product of `size` odds is in 10^-size and an     *)
(* expected value in 200^-size, so that products compare exactly.          *)
(***************************************************************************)
MAX_LEGS_POOL == 15

DOUBLE_TARGET_DEC == 20

DOUBLE_TOLERANCE == 2

TRIPLE_TARGET_DEC == 30

TRIPLE_TOLERANCE == 3

\* a leg of the pool: its decimal odds and its hit rate
Leg(decimal, rate) == [odds |-> [decimal |-> decimal], rate |-> rate]

\* legs at 1.4 (20/20), 1.5 (19/20) and 2.5 (18/20)
LegKinds == << Leg(14, 20), Leg(15, 19), Leg(25, 18) >>

\* the pools: some legs of each kind, in the order of the kinds or against
\* it, two more than MAX_LEGS_POOL at most
LegPools ==
    { Repeat(LegKinds[o[1]], c[1]) \o Repeat(LegKinds[o[2]], c[2]) \o Repeat(LegKinds[o[3]], c[3]) :
      c \in {d \in [1..3 -> 0..(MAX_LEGS_POOL + 2)] : d[1] + d[2] + d[3] <= MAX_LEGS_POOL + 2},
      o \in {<<1, 2, 3>>, <<3, 2, 1>>} }

\* itertools.combinations(domain, size), as increasing tuples of positions
combinations(n, size) ==
    {c \in [1..size -> 1..n] : \A i \in 1..(size - 1) : c[i] < c[i + 1]}

RECURSIVE TenTo(_)
TenTo(k) == IF k = 0 THEN 1 ELSE 10 * TenTo(k - 1)

RECURSIVE ProductDec(_, _, _)
\* np.prod([l["odds"]["decimal"] for l in combo])
ProductDec(domain, c, k) ==
    IF k = 0 THEN 1 ELSE domain[c[k]].odds.decimal * ProductDec(domain, c, k - 1)

RECURSIVE ProductProb(_, _, _)
\* np.prod([l["rate"] for l in combo])
ProductProb(domain, c, k) ==
    IF k = 0 THEN 1 ELSE domain[c[k]].rate * ProductProb(domain, c, k - 1)

product_dec(domain, c) == ProductDec(domain, c, Len(c))

ev(domain, c) == product_dec(domain, c) * ProductProb(domain, c, Len(c))

\* abs(product_dec - target_dec)
dist(domain, c, target_dec) ==
    Abs(product_dec(domain, c) - target_dec * TenTo(Len(c) - 1))

\* no combination counts as within the band
InBandNever(domain, c, target_dec, tol) == FALSE

\* abs(product_dec - target_dec) <= tol
InBand(domain, c, target_dec, tol) ==
    dist(domain, c, target_dec) <= tol * TenTo(Len(c) - 1)

\* the place of a combination in the order combinations() yields them
Rank(c) == IF Len(c) = 0 THEN 0 ELSE c[Len(c)] + 32 * (IF Len(c) > 1 THEN c[Len(c) - 1] ELSE 0)
                + 1024 * (IF Len(c) > 2 THEN c[Len(c) - 2] ELSE 0)

\* the first of the combinations of a set, in that order
FirstOf(cs) ==
    LET r == CHOOSE r \in {Rank(c) : c \in cs} : \A q \in {Rank(c) : c \in cs} : r <= q
    IN  CHOOSE c \in cs : Rank(c) = r

Parlay(domain, c) ==
    [kind |-> "parlay", legs |-> c, decimal |-> product_dec(domain, c), ev |-> ev(domain, c)]

build_parlay_suggestions(legs, target_dec, tol, size) ==
    LET domain == HeadN(legs, MAX_LEGS_POOL)
        combos == combinations(Len(domain), size)
        band   == {c \in combos : InBand(domain, c, target_dec, tol)}
    IN  IF Len(domain) < size THEN [kind |-> "None"]
        ELSE IF band # {}
        THEN LET top == CHOOSE e \in {ev(domain, c) : c \in band} :
                            \A f \in {ev(domain, c) : c \in band} : f <= e
             IN  Parlay(domain, FirstOf({c \in band : ev(domain, c) = top}))
        ELSE LET near == CHOOSE e \in {dist(domain, c, target_dec) : c \in combos} :
                            \A f \in {dist(domain, c, target_dec) : c \in combos} : e <= f
             IN  Parlay(domain, FirstOf({c \in combos : dist(domain, c, target_dec) = near}))

ParlayInit ==
    /\ ScanIdle
    /\ LoadIdle
    /\ CacheIdle
    /\ SaveIdle
    /\ RetryIdle
    /\ MainIdle
    /\ PickIdle
    /\ ThrIdle
    /\ TmIdle
    /\ NameIdle
    /\ PredIdle
    /\ leg_pool \in LegPools
    /\ double_pick = <<>>
    /\ triple_pick = <<>>
    /\ parlayPc = "double"

ParlayFrame == UNCHANGED <<leg_pool, scanVars, loadVars, cacheVars, saveVars, retryVars, mainVars, pickVars, thrVars, tmVars, nameVars, predVars>>

\* main: double_pick = build_parlay_suggestions(leg_pool, 2.00, 0.20, 2)
BuildDouble ==
    /\ parlayPc = "double"
    /\ double_pick' = build_parlay_suggestions(leg_pool, DOUBLE_TARGET_DEC, DOUBLE_TOLERANCE, 2)
    /\ parlayPc' = "triple"
    /\ UNCHANGED triple_pick
    /\ ParlayFrame

\* main: triple_pick = build_parlay_suggestions(leg_pool, 3.00, 0.30, 3)
BuildTriple ==
    /\ parlayPc = "triple"
    /\ triple_pick' = build_parlay_suggestions(leg_pool, TRIPLE_TARGET_DEC, TRIPLE_TOLERANCE, 3)
    /\ parlayPc' = "done"
    /\ UNCHANGED double_pick
    /\ ParlayFrame

ParlayNext ==
    \/ BuildDouble
    \/ BuildTriple

SpecParlay == ParlayInit /\ [][ParlayNext]_vars

(***************************************************************************)
(* Claims about build_parlay_suggestions (checked under SpecParlay)        *)
(***************************************************************************)
\* the legs a suggestion may use: the first MAX_LEGS_POOL places of the pool
ClaimPlaces == 1..(IF Len(leg_pool) < MAX_LEGS_POOL THEN Len(leg_pool) ELSE MAX_LEGS_POOL)

\* the size-combinations of those places
ClaimCombos(size) == {c \in [1..size -> ClaimPlaces] : \A i \in 1..(size - 1) : c[i] < c[i + 1]}

\* combined odds of a combination (two legs: hundredths; three: thousandths)
ClaimOdds(c) ==
    IF Len(c) = 2 THEN leg_pool[c[1]].odds.decimal * leg_pool[c[2]].odds.decimal
    ELSE leg_pool[c[1]].odds.decimal * leg_pool[c[2]].odds.decimal * leg_pool[c[3]].odds.decimal

\* combined odds times the product of the hit rates
ClaimValue(c) ==
    IF Len(c) = 2 THEN ClaimOdds(c) * leg_pool[c[1]].rate * leg_pool[c[2]].rate
    ELSE ClaimOdds(c) * leg_pool[c[1]].rate * leg_pool[c[2]].rate * leg_pool[c[3]].rate

\* distance of the combined odds to the target 2.00 or 3.00
ClaimOff(c) ==
    IF Len(c) = 2
    THEN (IF ClaimOdds(c) >= 200 THEN ClaimOdds(c) - 200 ELSE 200 - ClaimOdds(c))
    ELSE (IF ClaimOdds(c) >= 3000 THEN ClaimOdds(c) - 3000 ELSE 3000 - ClaimOdds(c))

\* within 0.20 of 2.00, or 0.30 of 3.00
ClaimWithin(c) == ClaimOff(c) <= (IF Len(c) = 2 THEN 20 ELSE 300)

\* what the claim says of a suggestion of `size` legs
ClaimSuggestion(pick, size) ==
    IF Cardinality(ClaimPlaces) < size THEN pick.kind = "None"
    ELSE /\ pick.kind = "parlay"
         /\ pick.legs \in ClaimCombos(size)
         /\ IF \E c \in ClaimCombos(size) : ClaimWithin(c)
            THEN /\ ClaimWithin(pick.legs)
                 /\ \A c \in ClaimCombos(size) : ClaimWithin(c) => ClaimValue(c) <= ClaimValue(pick.legs)
            ELSE \A c \in ClaimCombos(size) : ClaimOff(pick.legs) <= ClaimOff(c)

\* C26: build_parlay_suggestions returns None when fewer than size legs are
\* among the first MAX_LEGS_POOL; otherwise size distinct legs among them:
\* the combination of greatest expected value among those within tol of the
\* target if there is one, else the combination nearest to the target.
C26_ParlayChoice ==
    /\ parlayPc \in {"triple", "done"} => ClaimSuggestion(double_pick, 2)
    /\ parlayPc = "done" => ClaimSuggestion(triple_pick, 3)

\* more legs than MAX_LEGS_POOL; the double and the triple are within
\* their bands although a pair and a triple nearer to the targets exist
C26_Witness ==
    /\ parlayPc = "done"
    /\ Len(leg_pool) > MAX_LEGS_POOL
    /\ double_pick.kind = "parlay"
    /\ ClaimWithin(double_pick.legs)
    /\ \E c \in ClaimCombos(2) : ClaimOff(c) < ClaimOff(double_pick.legs)
    /\ triple_pick.kind = "parlay"
    /\ ClaimWithin(triple_pick.legs)
    /\ \E c \in ClaimCombos(3) : ClaimOff(c) < ClaimOff(triple_pick.legs)

(***************************************************************************)
(* SpecNames: get_last_n_games of nba_trends_final called for the players  *)
(* of a roster, each with a cache file named by cache_path.  A name is a   *)
(* sequence of characters.                                                 *)
(***************************************************************************)
\* the names of a roster, one player each
RosterNames ==
    << <<"A", ".", "J", ".", " ", "G", "r", "e", "e", "n">>,
       <<"A", "J", " ", "G", "r", "e", "e", "n">>,
       <<"A", "J", " ", "G", "r", "e", "e", "n", "e">>,
       <<"J", "o", "s", "h", " ", "G", "r", "e", "e", "n">> >>

RECURSIVE SafeName(_)
\* player_name.replace(" ", "_").replace(".", "")
SafeName(name) ==
    IF name = <<>> THEN <<>>
    ELSE IF Head(name) = "." THEN SafeName(Tail(name))
    ELSE IF Head(name) = " " THEN <<"_">> \o SafeName(Tail(name))
    ELSE <<Head(name)>> \o SafeName(Tail(name))

\* os.path.join(CACHE_DIR, f"{safe_name}.json")
cache_path(player_name) == SafeName(player_name) \o <<".", "j", "s", "o", "n">>

\* the game log the stats source has for the k-th player: two games
PlayerLog(k) == << [GAME_DATE |-> 2, MIN |-> 30, Player_ID |-> k],
                   [GAME_DATE |-> 1, MIN |-> 30, Player_ID |-> k] >>

CachePaths == {cache_path(RosterNames[k]) : k \in DOMAIN RosterNames}

NamesInit ==
    /\ ScanIdle
    /\ LoadIdle
    /\ CacheIdle
    /\ SaveIdle
    /\ RetryIdle
    /\ MainIdle
    /\ PickIdle
    /\ ThrIdle
    /\ TmIdle
    /\ ParlayIdle
    /\ PredIdle
    /\ cache_dir = [f \in CachePaths |-> Absent]
    /\ dirNow = 0
    /\ dirCall = [kind |-> "none"]

NamesFrame == UNCHANGED <<scanVars, loadVars, cacheVars, saveVars, retryVars, mainVars, pickVars, thrVars, tmVars, parlayVars, predVars>>

\* half a cache life passes
NamesTick ==
    /\ dirNow + CACHE_EXPIRY_HOURS \div 2 <= MaxHour
    /\ dirNow' = dirNow + CACHE_EXPIRY_HOURS \div 2
    /\ dirCall' = [kind |-> "none"]
    /\ UNCHANGED cache_dir
    /\ NamesFrame

\* main: logs = get_last_n_games(player, NUM_GAMES_LOOKBACK) for a player
\* of the roster; the fetch succeeds at once or fails on every attempt
GetLastNGamesOf ==
    /\ \E k \in DOMAIN RosterNames, fails \in {0, MaxAttempts} :
          LET path == cache_path(RosterNames[k])
              o    == get_last_n_games("final", cache_dir[path], dirNow, <<PlayerLog(k), <<>>>>,
                                       NUM_GAMES_LOOKBACK, TRUE, fails, "written", FALSE)
          IN  /\ (is_cache_valid(cache_dir[path], dirNow) => fails = 0)
              /\ cache_dir' = [cache_dir EXCEPT ![path] = o.file]
              /\ dirCall' = [kind |-> "returned", player |-> k, path |-> o.path, ret |-> o.ret]
    /\ UNCHANGED dirNow
    /\ NamesFrame

NamesNext ==
    \/ NamesTick
    \/ GetLastNGamesOf

SpecNames == NamesInit /\ [][NamesNext]_vars

(***************************************************************************)
(* Claims about the cache files by name (checked under SpecNames)          *)
(***************************************************************************)
\* C28: records cached for one player are never returned for another: the
\* cache files of two different roster names differ, so the window a call
\* serves from the cache was fetched for the name it is called with.
C28_CacheKeptPerPlayer ==
    dirCall.kind = "returned" =>
        \A i \in DOMAIN dirCall.ret : dirCall.ret[i].Player_ID = dirCall.player

(***************************************************************************)
(* SpecPredict: tennis_stats_predictor.predict_player_stats, one step per  *)
(* statement that reads the cache, asks Tennis Abstract or writes.         *)
(***************************************************************************)
WINDOW == 25

\* a match of the history: aces served and whether it was won
MatchHistories ==
    { <<>>, << [aces |-> 7, win |-> TRUE] >>,
      << [aces |-> 7, win |-> TRUE], [aces |-> 2, win |-> FALSE] >> }

NoMatches == [kind |-> "None"]

Matches(list) == [kind |-> "list", list |-> list]

\* the cache file of the player: missing, not loadable, or a list of matches
PlayerFiles ==
    {[kind |-> "absent"], [kind |-> "corrupt"]} \cup {[kind |-> "json", doc |-> h] : h \in MatchHistories}

\* load_player_cache: None without a file or when it does not load
load_player_cache(file) == IF file.kind = "json" THEN Matches(file.doc) ELSE NoMatches

\* "not matches": None or the empty list
NotMatches(m) == m.kind = "None" \/ m.list = <<>>

\* the global names the module defines; SAMPLE_PLAYER_DATA is not one
ModuleGlobals == {"CACHE_DIR", "PLAYERS_DIR", "HEADERS", "STATS_TO_TRACK", "WINDOW",
                  "SGO_API_KEY", "RAPIDAPI_KEY", "TENNIS_API_KEY"}

\* matches[-window:]
LastWindow(list) == SubSeq(list, IF Len(list) > WINDOW THEN Len(list) - WINDOW + 1 ELSE 1, Len(list))

RECURSIVE SumAces(_)
SumAces(list) == IF list = <<>> THEN 0 ELSE Head(list).aces + SumAces(Tail(list))

\* aggregate_stats(matches, window=WINDOW) and the dict built from it
Prediction(list) ==
    [kind |-> "prediction", matches_analyzed |-> Len(LastWindow(list)),
     aces |-> SumAces(LastWindow(list)),
     wins |-> Cardinality({i \in DOMAIN LastWindow(list) : LastWindow(list)[i].win})]

EmptyDict == [kind |-> "empty"]

PredictInit ==
    /\ ScanIdle
    /\ LoadIdle
    /\ CacheIdle
    /\ SaveIdle
    /\ RetryIdle
    /\ MainIdle
    /\ PickIdle
    /\ ThrIdle
    /\ TmIdle
    /\ ParlayIdle
    /\ NameIdle
    /\ use_cache \in BOOLEAN
    /\ playerFile \in PlayerFiles
    /\ playerFile0 = playerFile
    /\ predMatches = NoMatches
    /\ slug = "unset"
    /\ prediction = <<>>
    /\ predPc = "load"

PredFrame == UNCHANGED <<use_cache, playerFile0, scanVars, loadVars, cacheVars, saveVars, retryVars, mainVars, pickVars, thrVars, tmVars, parlayVars, nameVars>>

\* matches = load_player_cache(player) if use_cache else None
PredictLoad ==
    /\ predPc = "load"
    /\ predMatches' = IF use_cache THEN load_player_cache(playerFile) ELSE NoMatches
    /\ predPc' = IF NotMatches(predMatches') THEN "slug" ELSE "aggregate"
    /\ UNCHANGED <<playerFile, slug, prediction>>
    /\ PredFrame

\* slug = find_player_slug(player): the direct or the last-name slug, or
\* None (also on any exception)
PredictFindSlug ==
    /\ predPc = "slug"
    /\ slug' \in {"RogerFederer", "Federer", "None"}
    /\ predPc' = IF slug' = "None" THEN "sample" ELSE "scrape"
    /\ UNCHANGED <<playerFile, predMatches, prediction>>
    /\ PredFrame

\* for key in SAMPLE_PLAYER_DATA: the name is looked up among the globals
PredictSample ==
    /\ predPc = "sample"
    /\ IF "SAMPLE_PLAYER_DATA" \in ModuleGlobals
       THEN /\ predPc' = "check"
            /\ UNCHANGED prediction
       ELSE /\ predPc' = "ended"
            /\ prediction' = [kind |-> "raised", error |-> "NameError"]
    /\ UNCHANGED <<playerFile, predMatches, slug>>
    /\ PredFrame

\* matches = scrape_player_history(slug, max_matches=50): [] on any failure
PredictScrape ==
    /\ predPc = "scrape"
    /\ \E h \in MatchHistories : predMatches' = Matches(h)
    /\ predPc' = "check"
    /\ UNCHANGED <<playerFile, slug, prediction>>
    /\ PredFrame

\* if not matches: return {}
PredictCheck ==
    /\ predPc = "check"
    /\ IF NotMatches(predMatches)
       THEN /\ predPc' = "ended"
            /\ prediction' = EmptyDict
       ELSE /\ predPc' = "save"
            /\ UNCHANGED prediction
    /\ UNCHANGED <<playerFile, predMatches, slug>>
    /\ PredFrame

\* save_player_cache(player, matches): written, or an exception (printed)
\* that leaves the file as it was or cut short
PredictSave ==
    /\ predPc = "save"
    /\ playerFile' \in {[kind |-> "json", doc |-> predMatches.list], playerFile, [kind |-> "corrupt"]}
    /\ predPc' = "aggregate"
    /\ UNCHANGED <<predMatches, slug, prediction>>
    /\ PredFrame

\* overall = aggregate_stats(matches, window=WINDOW); return prediction
PredictReturn ==
    /\ predPc = "aggregate"
    /\ prediction' = Prediction(predMatches.list)
    /\ predPc' = "ended"
    /\ UNCHANGED <<playerFile, predMatches, slug>>
    /\ PredFrame

PredictNext ==
    \/ PredictLoad
    \/ PredictFindSlug
    \/ PredictSample
    \/ PredictScrape
    \/ PredictCheck
    \/ PredictSave
    \/ PredictReturn

SpecPredict == PredictInit /\ [][PredictNext]_vars

(***************************************************************************)
(* Claims about predict_player_stats (checked under SpecPredict)           *)
(***************************************************************************)
\* no usable cache: the cache is not asked, or the file is missing, does
\* not load, or holds no match
ClaimNoCache == ~use_cache \/ playerFile0.kind # "json" \/ playerFile0.doc = <<>>

\* C30: when no match history can be obtained (no usable cache, and the
\* slug is not found or scraping yields no match), predict_player_stats
\* returns the empty dict, raises nothing, and writes nothing to the cache.
C30_NoHistoryGivesEmptyDict ==
    (predPc = "ended" /\ ClaimNoCache
        /\ (slug = "None" \/ (slug \notin {"unset", "None"} /\ predMatches.kind = "list" /\ predMatches.list = <<>>))) =>
        /\ prediction = [kind |-> "empty"]
        /\ playerFile = playerFile0

====
